---- MODULE Spec2Model ----
(***************************************************************************)
(* A model of the blip/BPS patch toolkit: the lazy stream validator        *)
(* check_stream (blip/io.py) and the diff engine diff_bytearrays           *)
(* (bps/diff.py), with the encoder's offset conversion and the applier     *)
(* that the operations module and the apply module define.                 *)
(*                                                                         *)
(* A patch item is a Python tuple.  It is modelled as a record that keeps, *)
(* per tuple position, the type and the value found there:                 *)
(*   n       len(item)                                                     *)
(*   t0, i0  type ("bytes" | "str") and text of item[0]                    *)
(*   t1      type of item[1]: "int" | "bytes" | "str" | "none"             *)
(*   v1, d1  item[1] as an integer, item[1] as a byte string               *)
(*   t2, v2  type and integer value of item[2]                             *)
(*   t3, v3  type and text (a sequence of code points) of item[3]          *)
(* Bytes are the integers 0..255.  A CRC32 does not fit the integers of    *)
(* the model checker, so the item[1] of a sourcecrc32 or targetcrc32 item  *)
(* is kept as two halves, item[1] = h1 * 65536 + v1 with 0 <= v1 < 65536;  *)
(* in every other item h1 is 0 and item[1] is v1.                          *)
(***************************************************************************)
EXTENDS Integers, Sequences, FiniteSets, TLC

VARIABLES
    pulled,     \* the items next(iterable) has returned to the validator
    exhausted,  \* the underlying iterable has raised StopIteration
    inner,      \* frame of check_stream(p)
    yielded,    \* the items check_stream(p) has yielded
    outer,      \* frame of check_stream(check_stream(p))
    reyielded,  \* the items check_stream(check_stream(p)) has yielded
    source,     \* diff_bytearrays: the source bytes
    target,     \* diff_bytearrays: the target bytes
    metadata,   \* diff_bytearrays: the metadata text
    blocksize,  \* diff_bytearrays: the block size
    diff,       \* frame of diff_bytearrays (its locals and its position)
    ops,        \* the operations diff_bytearrays has yielded
    enc,        \* the encoder's two persistent copy cursors
    app,        \* the applier: the target buffer and its three cursors
    measure,    \* one call of measure_op: its arguments, locals and result
    varint,     \* one varint written to a buffer and read back from it
    wrapper,    \* a CRCIOWrapper: the wrapped buffer, its position, the CRC
    codec       \* a patch on its way through the binary and text codecs

vars == <<pulled, exhausted, inner, yielded, outer, reyielded,
          source, target, metadata, blocksize, diff, ops, enc, app,
          measure, varint, wrapper, codec>>

streamVars == <<pulled, exhausted, inner, yielded, outer, reyielded>>
diffVars == <<source, target, metadata, blocksize, diff, ops, enc, app>>
callVars == <<measure, varint, wrapper, codec>>

(***************************************************************************)
(* Bounds of the model.                                                    *)
(***************************************************************************)
MaxTargetSize == 3  \* a stream's target size, lengths and data lengths
MaxSourceSize == 1  \* a stream's source size
MaxOffset == 1      \* magnitude of a stream's copy offsets
MaxLen == 3         \* longest source and target handed to diff_bytearrays
MaxBlockSize == 2   \* largest block size diff_bytearrays runs with
MaxVarInt == 300    \* the integers 0..MaxVarInt are written as varints
MaxWrapperOps == 3  \* number of calls made on one CRCIOWrapper
MaxLines == 2       \* most lines in a metadata string written as blip-asm
MaxLineLen == 2     \* most characters of a metadata line before its newline

(***************************************************************************)
(* blip.constants                                                          *)
(***************************************************************************)
BLIP_MAGIC == "blip"
SOURCEREAD == "sourceread"
TARGETREAD == "targetread"
SOURCECOPY == "sourcecopy"
TARGETCOPY == "targetcopy"
SOURCECRC32 == "sourcecrc32"
TARGETCRC32 == "targetcrc32"

Min(a, b) == IF a < b THEN a ELSE b
Abs(a) == IF a < 0 THEN -a ELSE a

(***************************************************************************)
(* Items (tuples).                                                         *)
(***************************************************************************)
NoItem ==
    [n |-> 0, t0 |-> "none", i0 |-> "", t1 |-> "none", h1 |-> 0, v1 |-> 0,
     d1 |-> <<>>,
     t2 |-> "none", v2 |-> 0, t3 |-> "none", v3 |-> <<>>]

HeaderItem(sourcesize, targetsize, meta) ==
    [n |-> 4, t0 |-> "bytes", i0 |-> BLIP_MAGIC,
     t1 |-> "int", h1 |-> 0, v1 |-> sourcesize, d1 |-> <<>>,
     t2 |-> "int", v2 |-> targetsize, t3 |-> "str", v3 |-> meta]

SourceReadItem(length) ==
    [NoItem EXCEPT !.n = 2, !.t0 = "str", !.i0 = SOURCEREAD,
                   !.t1 = "int", !.v1 = length]

TargetReadItem(data) ==
    [NoItem EXCEPT !.n = 2, !.t0 = "str", !.i0 = TARGETREAD,
                   !.t1 = "bytes", !.d1 = data]

SourceCopyItem(length, offset) ==
    [NoItem EXCEPT !.n = 3, !.t0 = "str", !.i0 = SOURCECOPY,
                   !.t1 = "int", !.v1 = length, !.t2 = "int", !.v2 = offset]

TargetCopyItem(length, offset) ==
    [NoItem EXCEPT !.n = 3, !.t0 = "str", !.i0 = TARGETCOPY,
                   !.t1 = "int", !.v1 = length, !.t2 = "int", !.v2 = offset]

SourceCRC32Item(hi, lo) ==
    [NoItem EXCEPT !.n = 2, !.t0 = "str", !.i0 = SOURCECRC32,
                   !.t1 = "int", !.h1 = hi, !.v1 = lo]

TargetCRC32Item(hi, lo) ==
    [NoItem EXCEPT !.n = 2, !.t0 = "str", !.i0 = TARGETCRC32,
                   !.t1 = "int", !.h1 = hi, !.v1 = lo]

(***************************************************************************)
(* The outcome of next() on an iterator: an item, StopIteration, or        *)
(* CorruptFile raised by a generator further down the pipeline.            *)
(***************************************************************************)
Got(item) == [kind |-> "item", item |-> item]
Stop == [kind |-> "stop", item |-> NoItem]
Corrupt == [kind |-> "raise", item |-> NoItem]

(***************************************************************************)
(* check_stream's helpers.  Each is TRUE when the helper returns and FALSE *)
(* when it raises CorruptFile.                                             *)
(***************************************************************************)
_check_param_count(item, count) == item.n - 1 = count

_check_length(item) == item.t1 = "int" /\ item.v1 > 0

_check_offset(item) == item.t2 = "int"

_check_crc32(item, expectedOpcode) ==
    /\ _check_param_count(item, 1)
    /\ item.t0 = "str" /\ item.i0 = expectedOpcode
    /\ item.t1 = "int"
    /\ ~(item.h1 < 0)          \* item[1] < 0
    /\ ~(item.h1 > 65535)      \* item[1] > 2**32 - 1

\* _check_next: StopIteration becomes CorruptFile, anything else passes.
_check_next(nx) == IF nx.kind = "stop" THEN Corrupt ELSE nx

(***************************************************************************)
(* The frame of check_stream: where the generator is suspended and its     *)
(* locals.  The locals are assigned when the generator resumes after       *)
(* yielding the header; before that they hold 0.                           *)
(***************************************************************************)
NewFrame ==
    [pc |-> "header", sourceSize |-> 0, targetSize |-> 0,
     targetWriteOffset |-> 0, sourceRelativeOffset |-> 0,
     targetRelativeOffset |-> 0]

\* A resumption ends in a yield, in CorruptFile, or in the generator's return.
Yield(f, item) == [f |-> f, kind |-> "item", item |-> item]
Raise(f) == [f |-> [f EXCEPT !.pc = "corrupt"], kind |-> "raise", item |-> NoItem]
Return(f) == [f |-> [f EXCEPT !.pc = "done"], kind |-> "stop", item |-> NoItem]

\* Lines 102-142: the header checks, the yield, and the locals' first values.
CheckHeader(f, header) ==
    IF /\ header.n = 4
       /\ header.t0 = "bytes"
       /\ header.i0 = BLIP_MAGIC
       /\ header.t1 = "int"
       /\ header.v1 >= 0
       /\ header.t2 = "int"
       /\ header.v2 >= 0
       /\ header.t3 = "str"
    THEN Yield([pc |-> "middle", sourceSize |-> header.v1,
                targetSize |-> header.v2, targetWriteOffset |-> 0,
                sourceRelativeOffset |-> 0, targetRelativeOffset |-> 0],
               header)
    ELSE Raise(f)

\* Mutant of CheckWritten: the write-overflow check is missing.
CheckWrittenUnbounded(f, old, item) == Yield(f, item)

\* Lines 224-228: the write-overflow check that follows every branch, then
\* the yield of the item.
CheckWritten(f, old, item) ==
    IF f.targetWriteOffset > f.targetSize THEN Raise(old) ELSE Yield(f, item)

\* Mutant of CheckSourceRead: >= where the code has >, so a read that ends
\* exactly at the end of the source is refused.
CheckSourceReadStrict(f, item) ==
    IF /\ _check_param_count(item, 1)
       /\ _check_length(item)
       /\ ~(f.targetWriteOffset + item.v1 >= f.sourceSize)
    THEN CheckWritten(
            [f EXCEPT !.targetWriteOffset = f.targetWriteOffset + item.v1],
            f, item)
    ELSE Raise(f)

\* Mutant of CheckSourceRead: the read is bounded by the target size.
CheckSourceReadTargetBound(f, item) ==
    IF /\ _check_param_count(item, 1)
       /\ _check_length(item)
       /\ ~(f.targetWriteOffset + item.v1 > f.targetSize)
    THEN CheckWritten(
            [f EXCEPT !.targetWriteOffset = f.targetWriteOffset + item.v1],
            f, item)
    ELSE Raise(f)

\* Lines 147-158.
CheckSourceRead(f, item) ==
    IF /\ _check_param_count(item, 1)
       /\ _check_length(item)
       /\ ~(f.targetWriteOffset + item.v1 > f.sourceSize)
    THEN CheckWritten(
            [f EXCEPT !.targetWriteOffset = f.targetWriteOffset + item.v1],
            f, item)
    ELSE Raise(f)

\* Lines 160-172.
\* Mutant of CheckTargetRead: the test of line 168 is missing, so an empty
\* TargetRead is yielded.
CheckTargetReadEmpty(f, item) ==
    IF /\ _check_param_count(item, 1)
       /\ item.t1 = "bytes"
    THEN CheckWritten(
            [f EXCEPT !.targetWriteOffset = f.targetWriteOffset + Len(item.d1)],
            f, item)
    ELSE Raise(f)

CheckTargetRead(f, item) ==
    IF /\ _check_param_count(item, 1)
       /\ item.t1 = "bytes"
       /\ Len(item.d1) # 0
    THEN CheckWritten(
            [f EXCEPT !.targetWriteOffset = f.targetWriteOffset + Len(item.d1)],
            f, item)
    ELSE Raise(f)

\* Mutant of CheckSourceCopy: the item yielded carries the absolute source
\* offset in place of the offset relative to the cursor.
CheckSourceCopyAbsolute(f, item) ==
    IF /\ _check_param_count(item, 2)
       /\ _check_length(item)
       /\ _check_offset(item)
       /\ ~(f.sourceRelativeOffset + item.v2 < 0)
       /\ ~(f.sourceRelativeOffset + item.v2 + item.v1 > f.sourceSize)
    THEN CheckWritten(
            [f EXCEPT !.sourceRelativeOffset =
                          f.sourceRelativeOffset + (item.v1 + item.v2),
                      !.targetWriteOffset = f.targetWriteOffset + item.v1],
            f, [item EXCEPT !.v2 = f.sourceRelativeOffset + item.v2])
    ELSE Raise(f)

\* Mutant of CheckSourceCopy: the end-of-source check leaves the length out.
CheckSourceCopyNoLength(f, item) ==
    IF /\ _check_param_count(item, 2)
       /\ _check_length(item)
       /\ _check_offset(item)
       /\ ~(f.sourceRelativeOffset + item.v2 < 0)
       /\ ~(f.sourceRelativeOffset + item.v2 > f.sourceSize)
    THEN CheckWritten(
            [f EXCEPT !.sourceRelativeOffset =
                          f.sourceRelativeOffset + (item.v1 + item.v2),
                      !.targetWriteOffset = f.targetWriteOffset + item.v1],
            f, item)
    ELSE Raise(f)

\* Lines 174-194.
CheckSourceCopy(f, item) ==
    IF /\ _check_param_count(item, 2)
       /\ _check_length(item)
       /\ _check_offset(item)
       /\ ~(f.sourceRelativeOffset + item.v2 < 0)
       /\ ~(f.sourceRelativeOffset + item.v2 + item.v1 > f.sourceSize)
    THEN CheckWritten(
            [f EXCEPT !.sourceRelativeOffset =
                          f.sourceRelativeOffset + (item.v1 + item.v2),
                      !.targetWriteOffset = f.targetWriteOffset + item.v1],
            f, item)
    ELSE Raise(f)

\* Mutant of CheckTargetCopy: the whole window must lie in the written part,
\* so a copy that reads bytes it writes itself is refused.
CheckTargetCopyNoOverlap(f, item) ==
    IF /\ _check_param_count(item, 2)
       /\ _check_length(item)
       /\ _check_offset(item)
       /\ ~(f.targetRelativeOffset + item.v2 < 0)
       /\ ~(f.targetRelativeOffset + item.v2 + item.v1 > f.targetWriteOffset)
    THEN CheckWritten(
            [f EXCEPT !.targetRelativeOffset =
                          f.targetRelativeOffset + (item.v1 + item.v2),
                      !.targetWriteOffset = f.targetWriteOffset + item.v1],
            f, item)
    ELSE Raise(f)

\* Mutant of CheckTargetCopy: the cursor advances by the length alone.
CheckTargetCopyCursorLength(f, item) ==
    IF /\ _check_param_count(item, 2)
       /\ _check_length(item)
       /\ _check_offset(item)
       /\ ~(f.targetRelativeOffset + item.v2 < 0)
       /\ ~(f.targetRelativeOffset + item.v2 >= f.targetWriteOffset)
    THEN CheckWritten(
            [f EXCEPT !.targetRelativeOffset = f.targetRelativeOffset + item.v1,
                      !.targetWriteOffset = f.targetWriteOffset + item.v1],
            f, item)
    ELSE Raise(f)

\* Lines 196-218.
CheckTargetCopy(f, item) ==
    IF /\ _check_param_count(item, 2)
       /\ _check_length(item)
       /\ _check_offset(item)
       /\ ~(f.targetRelativeOffset + item.v2 < 0)
       /\ ~(f.targetRelativeOffset + item.v2 >= f.targetWriteOffset)
    THEN CheckWritten(
            [f EXCEPT !.targetRelativeOffset =
                          f.targetRelativeOffset + (item.v1 + item.v2),
                      !.targetWriteOffset = f.targetWriteOffset + item.v1],
            f, item)
    ELSE Raise(f)

IsOp(item, opcode) == item.t0 = "str" /\ item.i0 = opcode

\* Lines 144-228: one pass of the while loop's body on the item pulled.
CheckMiddle(f, item) ==
    CASE IsOp(item, SOURCEREAD) -> CheckSourceRead(f, item)
      [] IsOp(item, TARGETREAD) -> CheckTargetRead(f, item)
      [] IsOp(item, SOURCECOPY) -> CheckSourceCopy(f, item)
      [] IsOp(item, TARGETCOPY) -> CheckTargetCopy(f, item)
      [] OTHER -> Raise(f)

\* Lines 230-232 and 234-236.
CheckSourceCRC32(f, item) ==
    IF _check_crc32(item, SOURCECRC32)
    THEN Yield([f EXCEPT !.pc = "targetcrc32"], item)
    ELSE Raise(f)

CheckTargetCRC32(f, item) ==
    IF _check_crc32(item, TARGETCRC32)
    THEN Yield([f EXCEPT !.pc = "trailing"], item)
    ELSE Raise(f)

\* Mutant of CheckExhausted: whatever follows TargetCRC32 is ignored.
CheckExhaustedLax(f, nx) == Return(f)

\* Lines 238-244: next(iterable) inside try/except StopIteration.  An item is
\* trailing garbage; CorruptFile from below is not caught.
CheckExhausted(f, nx) ==
    IF nx.kind = "stop" THEN Return(f) ELSE Raise(f)

(***************************************************************************)
(* check_stream: one resumption of the generator.  f is its frame and nx   *)
(* the outcome of the single next(iterable) the resumption makes.  A       *)
(* generator that has returned or raised pulls nothing and stops.          *)
(***************************************************************************)
check_stream(f, nx) ==
    CASE f.pc = "header" ->
            IF _check_next(nx).kind = "item"
            THEN CheckHeader(f, nx.item) ELSE Raise(f)
      [] f.pc = "middle" ->
            IF _check_next(nx).kind # "item" THEN Raise(f)
            ELSE IF f.targetWriteOffset < f.targetSize
                 THEN CheckMiddle(f, nx.item)
                 ELSE CheckSourceCRC32(f, nx.item)
      [] f.pc = "targetcrc32" ->
            IF _check_next(nx).kind = "item"
            THEN CheckTargetCRC32(f, nx.item) ELSE Raise(f)
      [] f.pc = "trailing" -> CheckExhausted(f, nx)
      [] OTHER -> [f |-> f, kind |-> "stop", item |-> NoItem]

Running(f) == f.pc \notin {"done", "corrupt"}

(***************************************************************************)
(* The pipeline check_stream(check_stream(p)).  The consumer calls next()  *)
(* on the outer generator, which resumes and calls next() on the inner     *)
(* one, which resumes and calls next() on p: nx is what p returns.         *)
(***************************************************************************)
Feed(nx) ==
    LET r1 == check_stream(inner, nx)
        r2 == check_stream(outer, [kind |-> r1.kind, item |-> r1.item])
    IN  /\ pulled' = IF nx.kind = "item" THEN Append(pulled, nx.item) ELSE pulled
        /\ exhausted' = (nx.kind = "stop")
        /\ inner' = r1.f
        /\ yielded' = IF r1.kind = "item" THEN Append(yielded, r1.item) ELSE yielded
        /\ outer' = r2.f
        /\ reyielded' = IF r2.kind = "item" THEN Append(reyielded, r2.item)
                        ELSE reyielded

(***************************************************************************)
(* The items an arbitrary iterable may hold: every well-formed item within *)
(* the bounds, and the malformed ones each check of check_stream is about. *)
(* Every item has an item[0]: check_stream indexes it unguarded.           *)
(***************************************************************************)
Repeat(b, k) == [i \in 1..k |-> b]

StreamData ==
    {Repeat(65, k) : k \in 0..MaxTargetSize} \cup {<<66>>}

Headers ==
    {HeaderItem(s, t, <<>>) : s \in 0..MaxSourceSize, t \in 0..MaxTargetSize}
    \cup {HeaderItem(1, 1, <<109>>), HeaderItem(-1, 1, <<>>), HeaderItem(1, -1, <<>>),
          [HeaderItem(1, 1, <<>>) EXCEPT !.n = 3, !.t3 = "none"],
          [HeaderItem(1, 1, <<>>) EXCEPT !.t0 = "str"],
          [HeaderItem(1, 1, <<>>) EXCEPT !.i0 = "BPS1"],
          [HeaderItem(1, 1, <<>>) EXCEPT !.t1 = "str", !.v1 = 0],
          [HeaderItem(1, 1, <<>>) EXCEPT !.t2 = "str", !.v2 = 0],
          [HeaderItem(1, 1, <<>>) EXCEPT !.t3 = "bytes"]}

Middles ==
    {SourceReadItem(l) : l \in 0..MaxTargetSize}
    \cup {TargetReadItem(d) : d \in StreamData}
    \cup {SourceCopyItem(l, o) : l \in 0..(MaxSourceSize + 1),
                                 o \in (-MaxOffset)..MaxOffset}
    \cup {TargetCopyItem(l, o) : l \in 0..(MaxTargetSize - 1),
                                 o \in (-MaxOffset)..MaxOffset}
    \cup {[SourceReadItem(1) EXCEPT !.n = 3, !.t2 = "int"],
          [SourceReadItem(1) EXCEPT !.t1 = "str", !.v1 = 0],
          [TargetReadItem(<<65>>) EXCEPT !.t1 = "str", !.d1 = <<>>],
          [SourceCopyItem(1, 0) EXCEPT !.t2 = "str"],
          [TargetCopyItem(1, 0) EXCEPT !.n = 2, !.t2 = "none"],
          [SourceReadItem(1) EXCEPT !.i0 = "unknown"]}

\* -1, 2**32 - 1 and 2**32 as halves.
CRCValues == {<<-1, 65535>>, <<65535, 65535>>, <<65536, 0>>}

Trailers ==
    {SourceCRC32Item(c[1], c[2]) : c \in CRCValues}
    \cup {TargetCRC32Item(c[1], c[2]) : c \in CRCValues}
    \cup {[SourceCRC32Item(0, 0) EXCEPT !.t1 = "str"],
          [TargetCRC32Item(0, 0) EXCEPT !.n = 3, !.t2 = "int"]}

\* At the first position every header is tried.  At a later position
\* check_stream reads of a header only item[0] and len(item), so two headers
\* stand for all of them there.
LaterHeaders ==
    {HeaderItem(1, 1, <<>>), [HeaderItem(1, 1, <<>>) EXCEPT !.n = 2, !.t2 = "none",
                                                        !.t3 = "none"]}

Items ==
    (IF pulled = <<>> THEN Headers ELSE LaterHeaders) \cup Middles \cup Trailers

\* Before diff_bytearrays is called its frame and its consumers are idle.
IdleDiff ==
    /\ source = <<>> /\ target = <<>> /\ metadata = <<>> /\ blocksize = 1
    /\ diff = [pc |-> "idle"]
    /\ ops = <<>>
    /\ enc = [pc |-> "idle"]
    /\ app = [pc |-> "idle"]

\* Nothing has been called outside the pipeline.
IdleCalls ==
    /\ measure = [pc |-> "idle"]
    /\ varint = [pc |-> "idle"]
    /\ wrapper = [pc |-> "idle"]
    /\ codec = [pc |-> "idle"]

InitStream ==
    /\ pulled = <<>> /\ exhausted = FALSE
    /\ inner = NewFrame /\ yielded = <<>>
    /\ outer = NewFrame /\ reyielded = <<>>

\* next() on the pipeline when the iterable has another item.
PullItem ==
    /\ Running(outer) /\ ~exhausted
    /\ \E item \in Items : Feed(Got(item))
    /\ UNCHANGED diffVars
    /\ UNCHANGED callVars

\* next() on the pipeline when the iterable is at its end.
PullStop ==
    /\ Running(outer) /\ ~exhausted
    /\ Feed(Stop)
    /\ UNCHANGED diffVars
    /\ UNCHANGED callVars

Init == InitStream /\ IdleDiff /\ IdleCalls

Next == PullItem \/ PullStop

Spec == Init /\ [][Next]_vars

(***************************************************************************)
(* bps.operations: the operations diff_bytearrays yields.  A copy carries  *)
(* the absolute offset it reads from; bytespan is the number of target     *)
(* bytes the operation writes.  A CRC32 is kept as two 16-bit halves.      *)
(***************************************************************************)
NoOp ==
    [kind |-> "none", sourceSize |-> 0, targetSize |-> 0, metadata |-> <<>>,
     bytespan |-> 0, offset |-> 0, payload |-> <<>>, hi |-> 0, lo |-> 0]

Header(sourceSize, targetSize, meta) ==
    [NoOp EXCEPT !.kind = "Header", !.sourceSize = sourceSize,
                 !.targetSize = targetSize, !.metadata = meta]
SourceRead(bytespan) == [NoOp EXCEPT !.kind = "SourceRead", !.bytespan = bytespan]
TargetRead(payload) ==
    [NoOp EXCEPT !.kind = "TargetRead", !.bytespan = Len(payload),
                 !.payload = payload]
SourceCopy(bytespan, offset) ==
    [NoOp EXCEPT !.kind = "SourceCopy", !.bytespan = bytespan, !.offset = offset]
TargetCopy(bytespan, offset) ==
    [NoOp EXCEPT !.kind = "TargetCopy", !.bytespan = bytespan, !.offset = offset]
SourceCRC32(value) ==
    [NoOp EXCEPT !.kind = "SourceCRC32", !.hi = value[1], !.lo = value[2]]
TargetCRC32(value) ==
    [NoOp EXCEPT !.kind = "TargetCRC32", !.hi = value[1], !.lo = value[2]]

\* The number of bytes the variable-length encoding of n takes.
RECURSIVE measure_var_int(_)
measure_var_int(n) ==
    IF n > 127 THEN 1 + measure_var_int((n \div 128) - 1) ELSE 1

\* The offset a copy is encoded with: the distance from the cursor of its
\* kind to the absolute offset it reads from.
RelativeOffset(op, lastSourceCopyOffset, lastTargetCopyOffset) ==
    IF op.kind = "SourceCopy" THEN op.offset - lastSourceCopyOffset
    ELSE op.offset - lastTargetCopyOffset

\* len(op.encode(lastSourceCopyOffset, lastTargetCopyOffset)): the command
\* varint holds (length - 1) << 2 | opcode; a TargetRead is followed by its
\* bytes, a copy by the varint abs(offset) << 1 | sign.
EncodedLength(op, lastSourceCopyOffset, lastTargetCopyOffset) ==
    LET rel == RelativeOffset(op, lastSourceCopyOffset, lastTargetCopyOffset)
        raw == Abs(rel) * 2 + (IF rel < 0 THEN 1 ELSE 0)
    IN  CASE op.kind = "SourceRead" ->
                measure_var_int((op.bytespan - 1) * 4)
          [] op.kind = "TargetRead" ->
                measure_var_int((op.bytespan - 1) * 4 + 1) + op.bytespan
          [] op.kind = "SourceCopy" ->
                measure_var_int((op.bytespan - 1) * 4 + 2) + measure_var_int(raw)
          [] op.kind = "TargetCopy" ->
                measure_var_int((op.bytespan - 1) * 4 + 3) + measure_var_int(raw)

(***************************************************************************)
(* zlib.crc32 on 16-bit halves <<hi, lo>>: the reflected CRC-32 with       *)
(* polynomial EDB88320, initial value and final complement FFFFFFFF.       *)
(***************************************************************************)
RECURSIVE Xor(_, _)
Xor(a, b) ==
    IF a = 0 THEN b
    ELSE IF b = 0 THEN a
    ELSE 2 * Xor(a \div 2, b \div 2) + ((a + b) % 2)

CRCShift(c) ==
    LET hi == c[1] \div 2
        lo == (c[2] \div 2) + (c[1] % 2) * 32768
    IN  IF c[2] % 2 = 1 THEN <<Xor(hi, 60856), Xor(lo, 33568)>> ELSE <<hi, lo>>

\* Eight shifts, one for each bit of the byte folded in; each register is
\* computed before the next shift starts from it.
RECURSIVE CRCRounds(_, _)
CRCRounds(c, k) ==
    IF k = 0 THEN c
    ELSE LET shifted == CRCShift(c)
         IN  IF shifted[1] >= 0 THEN CRCRounds(shifted, k - 1) ELSE shifted

\* The register after a byte is folded into a register of 0: zlib's table.
CRCTable == [b \in 0..255 |-> CRCRounds(<<0, b>>, 8)]

\* Folding a byte in: the low byte of the register and the byte select the
\* table entry, which is combined with the register shifted by eight bits.
\* and on bytes the exclusive or is looked up as well.
XorTable == [a \in 0..255 |-> [b \in 0..255 |-> Xor(a, b)]]

Xor16(a, b) ==
    XorTable[a \div 256][b \div 256] * 256 + XorTable[a % 256][b % 256]

CRCFold(c, byte) ==
    LET entry == CRCTable[XorTable[c[2] % 256][byte]]
    IN  <<Xor16(c[1] \div 256, entry[1]),
          Xor16((c[2] \div 256) + (c[1] % 256) * 256, entry[2])>>

RECURSIVE CRCUpdate(_, _, _)
CRCUpdate(c, data, i) ==
    IF i > Len(data) THEN c
    ELSE LET folded == CRCFold(c, data[i])
         IN  IF folded[1] >= 0 THEN CRCUpdate(folded, data, i + 1) ELSE folded

crc32(data) ==
    LET c == CRCUpdate(<<65535, 65535>>, data, 1)
    IN  <<Xor(c[1], 65535), Xor(c[2], 65535)>>

(***************************************************************************)
(* bps.util.BlockMap: a dict from a block to the list of the offsets it    *)
(* was added at, in the order of the add_block calls.  The map is kept as  *)
(* the sequence of the <<block, offset>> pairs added.                      *)
(***************************************************************************)
RECURSIVE OffsetsOf(_, _, _)
OffsetsOf(map, block, i) ==
    IF i > Len(map) THEN <<>>
    ELSE (IF map[i][1] = block THEN <<map[i][2]>> ELSE <<>>)
         \o OffsetsOf(map, block, i + 1)

\* BlockMap.get(block, [])
get(map, block) == OffsetsOf(map, block, 1)

add_block(map, block, offset) == Append(map, <<block, offset>>)

\* data[a:b] for 0 <= a
Slice(data, a, b) == SubSeq(data, a + 1, Min(b, Len(data)))

\* iter_blocks: the pairs the generator yields, in order, from offset on.
RECURSIVE iter_blocks_from(_, _, _)
iter_blocks_from(data, size, offset) ==
    IF offset < Len(data)
    THEN LET block == Slice(data, offset, offset + size)
         IN  <<<<block, offset>>>> \o iter_blocks_from(data, size, offset + Len(block))
    ELSE <<>>

iter_blocks(data, size) == iter_blocks_from(data, size, 0)

(***************************************************************************)
(* measure_op.  Sequences are indexed from 1, so blocksrc[k] of the code   *)
(* is blocksrc[k + 1] here.                                                *)
(***************************************************************************)
Least(S) == CHOOSE x \in S : \A y \in S : x <= y

\* BackSpan counting the last byte compared when the loop runs to its end.
BackSpanFull(blocksrc, sourceoffset, tgt, targetoffset, pendingTargetReadSize) ==
    LET maxspan == Min(Min(sourceoffset, targetoffset), pendingTargetReadSize + 1)
        differ == {k \in 0..(maxspan - 1) :
                      blocksrc[sourceoffset - k] # tgt[targetoffset - k]}
    IN  IF maxspan <= 0 THEN 0
        ELSE IF differ # {} THEN Least(differ)
        ELSE maxspan

\* Lines 50-56: the value of backspan when the for loop is left.
BackSpan(blocksrc, sourceoffset, tgt, targetoffset, pendingTargetReadSize) ==
    LET maxspan == Min(Min(sourceoffset, targetoffset), pendingTargetReadSize + 1)
        differ == {k \in 0..(maxspan - 1) :
                      blocksrc[sourceoffset - k] # tgt[targetoffset - k]}
    IN  IF maxspan <= 0 THEN 0
        ELSE IF differ # {} THEN Least(differ)
        ELSE maxspan - 1

\* ForeSpan without the comparison of line 73: the loop always runs to its end.
ForeSpanUncompared(blocksrc, sourceoffset, tgt, targetoffset) ==
    LET sourcespan == Len(blocksrc) - sourceoffset
        targetspan == Len(tgt) - targetoffset
        maxspan == Min(sourcespan, targetspan)
    IN  IF maxspan <= 0 THEN 0 + 1
        ELSE (maxspan - 1) + 1

\* Lines 68-79: the value of forespan after the for/else.
ForeSpan(blocksrc, sourceoffset, tgt, targetoffset) ==
    LET sourcespan == Len(blocksrc) - sourceoffset
        targetspan == Len(tgt) - targetoffset
        maxspan == Min(sourcespan, targetspan)
        differ == {k \in 0..(maxspan - 1) :
                      blocksrc[sourceoffset + k + 1] # tgt[targetoffset + k + 1]}
    IN  IF maxspan <= 0 THEN 0 + 1
        ELSE IF differ # {} THEN Least(differ)
        ELSE (maxspan - 1) + 1

\* measure_op without the test of line 81: an aligned match is a SourceCopy.
measure_op_unaligned(pendingTargetReadSize, blocksrc, sourceoffset, tgt, targetoffset, op) ==
    LET backspan == BackSpan(blocksrc, sourceoffset, tgt, targetoffset,
                             pendingTargetReadSize)
        so == sourceoffset - backspan
        to == targetoffset - backspan
        pending == pendingTargetReadSize - backspan
        forespan == ForeSpan(blocksrc, so, tgt, to)
    IN  (IF pending # 0 THEN <<TargetRead(Slice(tgt, to - pending, to))>> ELSE <<>>)
        \o (IF op = "SourceCopy" THEN <<SourceCopy(forespan, so)>>
            ELSE <<TargetCopy(forespan, so)>>)

measure_op(pendingTargetReadSize, blocksrc, sourceoffset, tgt, targetoffset, op) ==
    LET backspan == BackSpan(blocksrc, sourceoffset, tgt, targetoffset,
                             pendingTargetReadSize)
        so == sourceoffset - backspan
        to == targetoffset - backspan
        pending == pendingTargetReadSize - backspan
        forespan == ForeSpan(blocksrc, so, tgt, to)
    IN  (IF pending # 0 THEN <<TargetRead(Slice(tgt, to - pending, to))>> ELSE <<>>)
        \o (IF op = "SourceCopy" /\ so = to
            THEN <<SourceRead(forespan)>>
            ELSE IF op = "SourceCopy" THEN <<SourceCopy(forespan, so)>>
            ELSE <<TargetCopy(forespan, so)>>)

\* op_efficiency: the quotient total_bytespan / total_encoding_size, kept as
\* the pair <<total_bytespan, total_encoding_size>>.
RECURSIVE op_efficiency_from(_, _, _, _)
op_efficiency_from(oplist, i, lastSourceCopyOffset, lastTargetCopyOffset) ==
    IF i > Len(oplist) THEN <<0, 0>>
    ELSE LET rest == op_efficiency_from(oplist, i + 1, lastSourceCopyOffset,
                                        lastTargetCopyOffset)
         IN  <<oplist[i].bytespan + rest[1],
               EncodedLength(oplist[i], lastSourceCopyOffset,
                             lastTargetCopyOffset) + rest[2]>>

\* op_efficiency dividing the other way round: bytes written per byte covered.
op_efficiency_inverted(oplist, lastSourceCopyOffset, lastTargetCopyOffset) ==
    <<op_efficiency_from(oplist, 1, lastSourceCopyOffset, lastTargetCopyOffset)[2],
      op_efficiency_from(oplist, 1, lastSourceCopyOffset, lastTargetCopyOffset)[1]>>

op_efficiency(oplist, lastSourceCopyOffset, lastTargetCopyOffset) ==
    op_efficiency_from(oplist, 1, lastSourceCopyOffset, lastTargetCopyOffset)

\* efficiency > bestOpEfficiency, on quotients with positive denominators.
Greater(e, best) == e[1] * best[2] > best[1] * e[2]

(***************************************************************************)
(* diff_bytearrays.  The frame holds the generator's locals and pc, the    *)
(* place it is suspended at:                                               *)
(*   "start"    not yet run                                                *)
(*   "search"   at the while test of line 148                              *)
(*   "emit"     in the for loop of line 196, about to yield bestOpList[1]  *)
(*   "yielded"  suspended at the yield of line 197; op is what it yielded  *)
(*   "tail"     suspended at the yield of line 217                         *)
(*   "sourcecrc32", "targetcrc32"  suspended at the yields of 219 and 220  *)
(*   "returned" the generator is finished                                  *)
(*   "crashed"  next(targetblocks) found no block (line 211)               *)
(* targetblocks is the offset the iter_blocks generator of line 138 is at. *)
(***************************************************************************)
DiffFrame ==
    [pc |-> "start",
     sourcemap |-> <<>>,
     targetWriteOffset |-> 0,
     lastSourceCopyOffset |-> 0,
     lastTargetCopyOffset |-> 0,
     targetmap |-> <<>>,
     targetblocks |-> 0,
     nextTargetBlockOffset |-> 0,
     pendingTargetReadSize |-> 0,
     bestOpList |-> <<>>,
     op |-> NoOp]

\* Lines 117-119: the block map of the whole source.
RECURSIVE AddBlocks(_, _, _)
AddBlocks(map, blocks, i) ==
    IF i > Len(blocks) THEN map
    ELSE AddBlocks(add_block(map, blocks[i][1], blocks[i][2]), blocks, i + 1)

\* Lines 154-186, for one extraOffset: the candidates in the order the two
\* inner loops measure them.
CandidatesAt(f, extraOffset) ==
    LET blockstart == f.targetWriteOffset + f.pendingTargetReadSize + extraOffset
        blockend == blockstart + blocksize
        block == Slice(target, blockstart, blockend)
        sourceOffsets == get(f.sourcemap, block)
        targetOffsets == get(f.targetmap, block)
    IN  [i \in 1..Len(sourceOffsets) |->
            measure_op(f.pendingTargetReadSize + extraOffset,
                       source, sourceOffsets[i], target, blockstart, "SourceCopy")]
        \o [i \in 1..Len(targetOffsets) |->
            measure_op(f.pendingTargetReadSize + extraOffset,
                       target, targetOffsets[i], target, blockstart, "TargetCopy")]

\* Line 153: the candidates of extraOffset 0 .. n-1, in order.
RECURSIVE Candidates(_, _)
Candidates(f, n) ==
    IF n = 0 THEN <<>> ELSE Candidates(f, n - 1) \o CandidatesAt(f, n - 1)

\* Lines 150-151 and 166-171, 181-186: the best list seen after candidates
\* i.. have been compared; <<>> stands for None.
RECURSIVE PickBest(_, _, _, _, _)
PickBest(f, candidates, i, bestOpList, bestOpEfficiency) ==
    IF i > Len(candidates) THEN bestOpList
    ELSE LET efficiency == op_efficiency(candidates[i], f.lastSourceCopyOffset,
                                         f.lastTargetCopyOffset)
         IN  IF Greater(efficiency, bestOpEfficiency)
             THEN PickBest(f, candidates, i + 1, candidates[i], efficiency)
             ELSE PickBest(f, candidates, i + 1, bestOpList, bestOpEfficiency)

BestOpList(f) == PickBest(f, Candidates(f, blocksize), 1, <<>>, <<0, 1>>)

\* Account remembering where a copy started instead of where it ended.
AccountStart(f) ==
    [f EXCEPT
        !.targetWriteOffset = f.targetWriteOffset + f.op.bytespan,
        !.lastTargetCopyOffset =
            IF f.op.kind = "TargetCopy" THEN f.op.offset
            ELSE f.lastTargetCopyOffset,
        !.lastSourceCopyOffset =
            IF f.op.kind = "SourceCopy" THEN f.op.offset
            ELSE f.lastSourceCopyOffset]

\* Lines 199-204: the bookkeeping for the operation just yielded.
Account(f) ==
    [f EXCEPT
        !.targetWriteOffset = f.targetWriteOffset + f.op.bytespan,
        !.lastTargetCopyOffset =
            IF f.op.kind = "TargetCopy" THEN f.op.offset + f.op.bytespan
            ELSE f.lastTargetCopyOffset,
        !.lastSourceCopyOffset =
            IF f.op.kind = "SourceCopy" THEN f.op.offset + f.op.bytespan
            ELSE f.lastSourceCopyOffset]

\* CatchUp adding a block as soon as any byte of it has been written.
RECURSIVE CatchUpEager(_)
CatchUpEager(f) ==
    IF f.targetWriteOffset - f.nextTargetBlockOffset >= 1
    THEN IF f.targetblocks < Len(target)
         THEN LET offset == f.targetblocks
                  newblock == Slice(target, offset, offset + blocksize)
              IN  CatchUpEager([f EXCEPT
                      !.targetblocks = offset + Len(newblock),
                      !.targetmap = add_block(f.targetmap, newblock, offset),
                      !.nextTargetBlockOffset = offset + Len(newblock)])
         ELSE [f EXCEPT !.pc = "crashed"]
    ELSE f

\* Lines 210-213: the target map catches up with targetWriteOffset.
RECURSIVE CatchUp(_)
CatchUp(f) ==
    IF f.targetWriteOffset - f.nextTargetBlockOffset >= blocksize
    THEN IF f.targetblocks < Len(target)
         THEN LET offset == f.targetblocks
                  newblock == Slice(target, offset, offset + blocksize)
              IN  CatchUp([f EXCEPT
                      !.targetblocks = offset + Len(newblock),
                      !.targetmap = add_block(f.targetmap, newblock, offset),
                      !.nextTargetBlockOffset = offset + Len(newblock)])
         ELSE [f EXCEPT !.pc = "crashed"]
    ELSE f

(***************************************************************************)
(* The encoder's view of an operation: the tuple written for it, a copy's  *)
(* offset being the distance from the encoder's cursor of that kind.       *)
(***************************************************************************)
NewEncoder == [pc |-> "running", sourceCursor |-> 0, targetCursor |-> 0]

Encode(e, op) ==
    CASE op.kind = "Header" -> HeaderItem(op.sourceSize, op.targetSize, op.metadata)
      [] op.kind = "SourceRead" -> SourceReadItem(op.bytespan)
      [] op.kind = "TargetRead" -> TargetReadItem(op.payload)
      [] op.kind = "SourceCopy" ->
            SourceCopyItem(op.bytespan,
                           RelativeOffset(op, e.sourceCursor, e.targetCursor))
      [] op.kind = "TargetCopy" ->
            TargetCopyItem(op.bytespan,
                           RelativeOffset(op, e.sourceCursor, e.targetCursor))
      [] op.kind = "SourceCRC32" -> SourceCRC32Item(op.hi, op.lo)
      [] op.kind = "TargetCRC32" -> TargetCRC32Item(op.hi, op.lo)

\* After a copy the cursor of its kind is the end of the bytes it read.
Encoded(e, op) ==
    [e EXCEPT
        !.sourceCursor = IF op.kind = "SourceCopy" THEN op.offset + op.bytespan
                         ELSE e.sourceCursor,
        !.targetCursor = IF op.kind = "TargetCopy" THEN op.offset + op.bytespan
                         ELSE e.targetCursor]

(***************************************************************************)
(* The applier: it writes each operation's bytes into a buffer of          *)
(* targetSize bytes, created when the header arrives.  A read outside the  *)
(* source or the buffer is an IndexError: pc becomes "error".              *)
(***************************************************************************)
NewApplier ==
    [pc |-> "running", buffer |-> <<>>, writeOffset |-> 0,
     sourceCursor |-> 0, targetCursor |-> 0]

\* buffer[at : at + Len(bytes)] = bytes
Store(buffer, at, bytes) ==
    [i \in 1..Len(buffer) |->
        IF i > at /\ i <= at + Len(bytes) THEN bytes[i - at] ELSE buffer[i]]

\* TargetCopy copies one byte at a time, so it may read what it has written.
RECURSIVE CopyWithin(_, _, _, _)
CopyWithin(buffer, from, to, n) ==
    IF n = 0 THEN buffer
    ELSE CopyWithin([buffer EXCEPT ![to + 1] = buffer[from + 1]],
                    from + 1, to + 1, n - 1)

Apply(a, item) ==
    LET w == a.writeOffset
        n == IF IsOp(item, TARGETREAD) THEN Len(item.d1) ELSE item.v1
        sc == a.sourceCursor + item.v2
        tc == a.targetCursor + item.v2
        fits == w + n <= Len(a.buffer)
    IN  CASE item.t0 = "bytes" /\ item.i0 = BLIP_MAGIC ->
                [a EXCEPT !.buffer = Repeat(0, item.v2)]
          [] IsOp(item, SOURCEREAD) ->
                IF fits /\ w + n <= Len(source)
                THEN [a EXCEPT !.buffer = Store(a.buffer, w, Slice(source, w, w + n)),
                               !.writeOffset = w + n]
                ELSE [a EXCEPT !.pc = "error"]
          [] IsOp(item, TARGETREAD) ->
                IF fits
                THEN [a EXCEPT !.buffer = Store(a.buffer, w, item.d1),
                               !.writeOffset = w + n]
                ELSE [a EXCEPT !.pc = "error"]
          [] IsOp(item, SOURCECOPY) ->
                IF fits /\ sc >= 0 /\ sc + n <= Len(source)
                THEN [a EXCEPT !.buffer = Store(a.buffer, w, Slice(source, sc, sc + n)),
                               !.writeOffset = w + n,
                               !.sourceCursor = sc + n]
                ELSE [a EXCEPT !.pc = "error"]
          [] IsOp(item, TARGETCOPY) ->
                IF fits /\ tc >= 0 /\ tc < w
                THEN [a EXCEPT !.buffer = CopyWithin(a.buffer, tc, w, n),
                               !.writeOffset = w + n,
                               !.targetCursor = tc + n]
                ELSE [a EXCEPT !.pc = "error"]
          [] OTHER -> a

(***************************************************************************)
(* The pipeline apply(check_stream(encode(diff_bytearrays(source, target)))):*)
(* each yield of diff_bytearrays is encoded, pulled by the validator and,  *)
(* when the validator yields it, applied.                                  *)
(***************************************************************************)
Deliver(op) ==
    LET item == Encode(enc, op)
        r == check_stream(inner, Got(item))
    IN  /\ ops' = Append(ops, op)
        /\ enc' = Encoded(enc, op)
        /\ Feed(Got(item))
        /\ app' = IF r.kind = "item" /\ app.pc = "running"
                  THEN Apply(app, r.item) ELSE app

Consuming == Running(outer) /\ ~exhausted

\* DiffStart loading the whole target into targetmap, as it does the source.
DiffStartMapsTarget ==
    /\ diff.pc = "start" /\ Consuming
    /\ Deliver(Header(Len(source), Len(target), metadata))
    /\ diff' = [diff EXCEPT
                   !.pc = "search",
                   !.sourcemap = AddBlocks(<<>>, iter_blocks(source, blocksize), 1),
                   !.targetmap = AddBlocks(<<>>, iter_blocks(target, blocksize), 1)]
    /\ UNCHANGED <<source, target, metadata, blocksize>>
    /\ UNCHANGED callVars

\* Lines 111-119: the header is yielded before the source map is built.
DiffStart ==
    /\ diff.pc = "start" /\ Consuming
    /\ Deliver(Header(Len(source), Len(target), metadata))
    /\ diff' = [diff EXCEPT
                   !.pc = "search",
                   !.sourcemap = AddBlocks(<<>>, iter_blocks(source, blocksize), 1)]
    /\ UNCHANGED <<source, target, metadata, blocksize>>
    /\ UNCHANGED callVars

LoopTest(f) == f.targetWriteOffset + f.pendingTargetReadSize < Len(target)

\* DiffSearch with line 193 stepping back instead of on.
DiffSearchBackward ==
    /\ diff.pc = "search" /\ LoopTest(diff)
    /\ LET best == BestOpList(diff)
       IN  diff' = IF best = <<>>
                   THEN [diff EXCEPT !.pendingTargetReadSize =
                                         diff.pendingTargetReadSize - blocksize]
                   ELSE [diff EXCEPT !.pc = "emit", !.bestOpList = best]
    /\ UNCHANGED <<source, target, metadata, blocksize, ops, enc, app>>
    /\ UNCHANGED callVars
    /\ UNCHANGED streamVars

\* Lines 148-194: one pass of the while loop up to the for loop of line 196.
DiffSearch ==
    /\ diff.pc = "search" /\ LoopTest(diff)
    /\ LET best == BestOpList(diff)
       IN  diff' = IF best = <<>>
                   THEN [diff EXCEPT !.pendingTargetReadSize =
                                         diff.pendingTargetReadSize + blocksize]
                   ELSE [diff EXCEPT !.pc = "emit", !.bestOpList = best]
    /\ UNCHANGED <<source, target, metadata, blocksize, ops, enc, app>>
    /\ UNCHANGED callVars
    /\ UNCHANGED streamVars

\* Line 197: the next operation of the best list is yielded.
DiffEmit ==
    /\ diff.pc = "emit" /\ Consuming
    /\ Deliver(Head(diff.bestOpList))
    /\ diff' = [diff EXCEPT !.pc = "yielded",
                            !.op = Head(diff.bestOpList),
                            !.bestOpList = Tail(diff.bestOpList)]
    /\ UNCHANGED <<source, target, metadata, blocksize>>
    /\ UNCHANGED callVars

\* Lines 199-213: resumed after the yield, the generator does the yielded
\* operation's bookkeeping and, after the last one of the list, resets the
\* pending size and lets the target map catch up.
DiffAccount ==
    /\ diff.pc = "yielded" /\ Consuming
    /\ LET f == Account(diff)
       IN  diff' = IF f.bestOpList # <<>>
                   THEN [f EXCEPT !.pc = "emit"]
                   ELSE CatchUp([f EXCEPT !.pc = "search",
                                          !.pendingTargetReadSize = 0])
    /\ UNCHANGED <<source, target, metadata, blocksize, ops, enc, app>>
    /\ UNCHANGED callVars
    /\ UNCHANGED streamVars

\* Lines 215-217: what the loop left pending is yielded as one TargetRead.
DiffTail ==
    /\ diff.pc = "search" /\ ~LoopTest(diff) /\ Consuming
    /\ diff.targetWriteOffset < Len(target)
    /\ Deliver(TargetRead(Slice(target, diff.targetWriteOffset, Len(target))))
    /\ diff' = [diff EXCEPT !.pc = "tail"]
    /\ UNCHANGED <<source, target, metadata, blocksize>>
    /\ UNCHANGED callVars

\* Line 219.
DiffSourceCRC32 ==
    /\ \/ diff.pc = "tail"
       \/ /\ diff.pc = "search" /\ ~LoopTest(diff)
          /\ ~(diff.targetWriteOffset < Len(target))
    /\ Consuming
    /\ Deliver(SourceCRC32(crc32(source)))
    /\ diff' = [diff EXCEPT !.pc = "sourcecrc32"]
    /\ UNCHANGED <<source, target, metadata, blocksize>>
    /\ UNCHANGED callVars

\* Line 220.
DiffTargetCRC32 ==
    /\ diff.pc = "sourcecrc32" /\ Consuming
    /\ Deliver(TargetCRC32(crc32(target)))
    /\ diff' = [diff EXCEPT !.pc = "targetcrc32"]
    /\ UNCHANGED <<source, target, metadata, blocksize>>
    /\ UNCHANGED callVars

\* The generator returns: the validator's next() raises StopIteration.
DiffReturn ==
    /\ diff.pc = "targetcrc32" /\ Consuming
    /\ Feed(Stop)
    /\ diff' = [diff EXCEPT !.pc = "returned"]
    /\ UNCHANGED <<source, target, metadata, blocksize, ops, enc, app>>
    /\ UNCHANGED callVars

(***************************************************************************)
(* The inputs of diff_bytearrays.  Line 111 computes blocksize from the    *)
(* two lengths (BlockSizeOf), which is 1 for inputs shorter than a         *)
(* megabyte; the callers in test_diff.py pass it as an argument.  The      *)
(* model runs the computed block size and every one from 1 to MaxBlockSize.*)
(***************************************************************************)
BlockSizeOf(src, tgt) == (Len(src) + Len(tgt)) \div 1000000 + 1

DiffBytes == {65, 66}

RECURSIVE ByteStrings(_)
ByteStrings(n) ==
    IF n = 0 THEN {<<>>}
    ELSE LET shorter == ByteStrings(n - 1)
         IN  shorter \cup {Append(d, b) : d \in {x \in shorter : Len(x) = n - 1},
                                          b \in DiffBytes}

\* The inputs of testVariableBlockSize: b'ABABAB' and b'AAABBB', diffed with
\* the block sizes 2 and 3 (and with the one line 111 computes).
ScenarioSource == <<65, 66, 65, 66, 65, 66>>
ScenarioTarget == <<65, 65, 65, 66, 66, 66>>

DiffInputs ==
    /\ \/ /\ source \in ByteStrings(MaxLen)
          /\ target \in ByteStrings(MaxLen)
          /\ metadata \in {<<>>, <<109>>}
          /\ blocksize \in {BlockSizeOf(source, target)} \cup 1..MaxBlockSize
       \/ /\ source = ScenarioSource
          /\ target = ScenarioTarget
          /\ metadata = <<>>
          /\ blocksize \in {BlockSizeOf(source, target), 2, 3}
    /\ diff = DiffFrame
    /\ ops = <<>>
    /\ enc = NewEncoder
    /\ app = NewApplier

NextDiff ==
    \/ DiffStart
    \/ DiffSearch
    \/ DiffEmit
    \/ DiffAccount
    \/ DiffTail
    \/ DiffSourceCRC32
    \/ DiffTargetCRC32
    \/ DiffReturn

InitDiff == InitStream /\ DiffInputs /\ IdleCalls

SpecDiff == InitDiff /\ [][NextDiff]_vars

\* The steps that run the generator's code up to its next yield, and the
\* states in which one of them can be taken: DiffSearch needs no consumer,
\* the others are the consumer's next().
Producing ==
    \/ DiffStart \/ DiffSearch \/ DiffEmit
    \/ DiffTail \/ DiffSourceCRC32 \/ DiffTargetCRC32

CanProduce ==
    \/ diff.pc = "search" /\ (LoopTest(diff) \/ Consuming)
    \/ diff.pc \in {"start", "emit", "tail", "sourcecrc32"} /\ Consuming

\* The consumer goes on calling next() and the generator's code runs on: a
\* step that can be taken is taken.  The last conjunct is WF_vars(Producing)
\* with ENABLED <<Producing>>_vars written out as CanProduce.
SpecDiffLive ==
    /\ InitDiff /\ [][NextDiff]_vars
    /\ WF_vars(DiffAccount) /\ WF_vars(DiffReturn)
    /\ ([]<>~CanProduce \/ []<><<Producing>>_vars)

(***************************************************************************)
(* measure_op called on its own, as TestMeasureOp calls it: any two        *)
(* buffers, an offset into each, and a pending size that does not reach    *)
(* back beyond the start of the target.                                    *)
(***************************************************************************)
MeasureInputs ==
    /\ \E blocksrc \in ByteStrings(MaxLen), tgt \in ByteStrings(MaxLen) :
       \E sourceoffset \in 0..Len(blocksrc), targetoffset \in 0..Len(tgt) :
       \E pendingTargetReadSize \in 0..targetoffset :
       \E op \in {"SourceCopy", "TargetCopy"} :
          measure = [pc |-> "called",
                     pendingTargetReadSize |-> pendingTargetReadSize,
                     blocksrc |-> blocksrc, sourceoffset |-> sourceoffset,
                     target |-> tgt, targetoffset |-> targetoffset,
                     op |-> op,
                     backspan |-> 0, forespan |-> 0, result |-> <<>>]
    /\ varint = [pc |-> "idle"]
    /\ wrapper = [pc |-> "idle"]
    /\ codec = [pc |-> "idle"]

\* Lines 31-86: the call runs to its return; backspan and forespan are the
\* values the two locals have when the function returns.
MeasureOp ==
    /\ measure.pc = "called"
    /\ LET backspan == BackSpan(measure.blocksrc, measure.sourceoffset,
                                measure.target, measure.targetoffset,
                                measure.pendingTargetReadSize)
       IN  measure' = [measure EXCEPT
              !.pc = "returned",
              !.backspan = backspan,
              !.forespan = ForeSpan(measure.blocksrc,
                                    measure.sourceoffset - backspan,
                                    measure.target,
                                    measure.targetoffset - backspan),
              !.result = measure_op(measure.pendingTargetReadSize,
                                    measure.blocksrc, measure.sourceoffset,
                                    measure.target, measure.targetoffset,
                                    measure.op)]
    /\ UNCHANGED <<varint, wrapper, codec>>
    /\ UNCHANGED streamVars
    /\ UNCHANGED diffVars

InitMeasure == InitStream /\ IdleDiff /\ MeasureInputs

NextMeasure == MeasureOp

SpecMeasure == InitMeasure /\ [][NextMeasure]_vars

(***************************************************************************)
(* The variable-length integers of bps.util.  write_var_int emits the low  *)
(* seven bits of n while n > 0x7F, going on with (n >> 7) - 1, and ends    *)
(* with a byte that has its high bit set.  read_var_int adds               *)
(* (b & 0x7F) * shift for every byte, stops after a byte with the high bit *)
(* set and otherwise goes on with shift << 7, adding shift.                *)
(***************************************************************************)
RECURSIVE encode_var_int(_)
encode_var_int(n) ==
    IF n > 127 THEN <<n % 128>> \o encode_var_int((n \div 128) - 1)
    ELSE <<n + 128>>

\* write_var_int(n, buf): the buffer after the write.
write_var_int(n, buf) == buf \o encode_var_int(n)

\* The bytes of a varint are read one at a time from position pos (the
\* number of bytes already read).  The result is [ok, value, pos]; ok is
\* FALSE when the buffer ends before a byte with the high bit set.  From
\* the fifth byte on shift is 128^4 or more; such a value is larger than
\* any size or offset of the model and is kept as the sum of its first
\* four bytes and 128^4, which has the same two low bits.
RECURSIVE ReadVarIntFrom(_, _, _, _, _)
ReadVarIntFrom(buf, pos, data, shift, count) ==
    IF pos >= Len(buf) THEN [ok |-> FALSE, value |-> data, pos |-> pos]
    ELSE LET x == buf[pos + 1]
             sum == IF count < 4 THEN data + (x % 128) * shift ELSE data
         IN  IF x >= 128 THEN [ok |-> TRUE, value |-> sum, pos |-> pos + 1]
             ELSE IF count < 3
                  THEN ReadVarIntFrom(buf, pos + 1, sum + shift * 128,
                                      shift * 128, count + 1)
                  ELSE ReadVarIntFrom(buf, pos + 1,
                                      IF count = 3 THEN sum + shift * 128 ELSE sum,
                                      shift, count + 1)

\* read_var_int as plain little-endian base 128: shift is not added when a
\* further byte follows.
RECURSIVE ReadPlainFrom(_, _, _, _)
ReadPlainFrom(buf, pos, data, shift) ==
    IF pos >= Len(buf) THEN [ok |-> FALSE, value |-> data, pos |-> pos]
    ELSE LET x == buf[pos + 1]
             sum == data + (x % 128) * shift
         IN  IF x >= 128 \/ shift > 128 * 128 * 128
             THEN [ok |-> TRUE, value |-> sum, pos |-> pos + 1]
             ELSE ReadPlainFrom(buf, pos + 1, sum, shift * 128)

read_var_int_plain(buf, pos) == ReadPlainFrom(buf, pos, 0, 1)

read_var_int(buf, pos) == ReadVarIntFrom(buf, pos, 0, 1, 0)

(***************************************************************************)
(* One varint written to an empty buffer, followed by other bytes, and     *)
(* read back (TestWriteVarInt, TestReadVarInt).                            *)
(***************************************************************************)
VarIntEdges == {16383, 16384, 16511, 16512, 2113663, 2113664}

VarIntInputs ==
    /\ \E n \in (0..MaxVarInt) \cup VarIntEdges :
       \E trailing \in {<<>>, <<16>>, <<0, 128>>} :
          varint = [pc |-> "start", n |-> n, trailing |-> trailing,
                    buf |-> <<>>, written |-> 0,
                    ok |-> FALSE, value |-> 0, pos |-> 0]
    /\ measure = [pc |-> "idle"]
    /\ wrapper = [pc |-> "idle"]
    /\ codec = [pc |-> "idle"]

\* util.write_var_int(n, buf); the other bytes follow it in the buffer.
WriteVarInt ==
    /\ varint.pc = "start"
    /\ LET buf == write_var_int(varint.n, <<>>)
       IN  varint' = [varint EXCEPT !.pc = "written",
                                    !.written = Len(buf),
                                    !.buf = buf \o varint.trailing]
    /\ UNCHANGED <<measure, wrapper, codec>>
    /\ UNCHANGED streamVars
    /\ UNCHANGED diffVars

\* util.read_var_int(buf) from the start of the buffer.
ReadVarInt ==
    /\ varint.pc = "written"
    /\ LET r == read_var_int(varint.buf, 0)
       IN  varint' = [varint EXCEPT !.pc = "read", !.ok = r.ok,
                                    !.value = r.value, !.pos = r.pos]
    /\ UNCHANGED <<measure, wrapper, codec>>
    /\ UNCHANGED streamVars
    /\ UNCHANGED diffVars

InitVarInt == InitStream /\ IdleDiff /\ VarIntInputs

NextVarInt == WriteVarInt \/ ReadVarInt

SpecVarInt == InitVarInt /\ [][NextVarInt]_vars

(***************************************************************************)
(* util.CRCIOWrapper: a byte stream that keeps the CRC32 of the bytes read *)
(* from it and written to it.  The stream it wraps is data with the        *)
(* position pos (an io.BytesIO).  Seeking is refused; truncating is passed *)
(* on to the wrapped stream when the size is the current position or 0,    *)
(* and 0 resets the CRC.  An operation that raises UnsupportedOperation    *)
(* leaves the wrapper as it was.  op, size, raised and old describe the    *)
(* last call: None is written -1.                                          *)
(***************************************************************************)
\* zlib.crc32(data, value): the CRC of data appended to what value is the
\* CRC of.
crc32_update(data, value) ==
    LET c == CRCUpdate(<<Xor(value[1], 65535), Xor(value[2], 65535)>>, data, 1)
    IN  <<Xor(c[1], 65535), Xor(c[2], 65535)>>

NewWrapper(data) ==
    [pc |-> "open", data |-> data, pos |-> 0, crc32 |-> <<0, 0>>,
     op |-> "none", size |-> 0, raised |-> FALSE,
     old |-> [data |-> data, pos |-> 0, crc32 |-> <<0, 0>>], count |-> 0]

Called(w, op, size) ==
    [w EXCEPT !.op = op, !.size = size, !.raised = FALSE,
              !.old = [data |-> w.data, pos |-> w.pos, crc32 |-> w.crc32],
              !.count = w.count + 1]

\* stream.read(size)
wrapper_read(w, size) ==
    LET res == Slice(w.data, Min(w.pos, Len(w.data)), w.pos + size)
    IN  [Called(w, "read", size) EXCEPT
            !.pos = w.pos + Len(res),
            !.crc32 = crc32_update(res, w.crc32)]

\* stream.write(buf): the bytes replace what is at the position, after
\* zeros if the position is beyond the end.
wrapper_write(w, buf) ==
    LET padded == w.data \o Repeat(0, w.pos - Len(w.data))
        after == SubSeq(padded, w.pos + Len(buf) + 1, Len(padded))
    IN  [Called(w, "write", Len(buf)) EXCEPT
            !.data = SubSeq(padded, 1, w.pos) \o buf \o after,
            !.pos = w.pos + Len(buf),
            !.crc32 = crc32_update(buf, w.crc32)]

\* stream.seek(offset)
wrapper_seek(w, offset) ==
    [Called(w, "seek", offset) EXCEPT !.raised = TRUE]

\* stream.truncate(size) accepting every size.
wrapper_truncate_any(w, size) ==
    LET length == IF size = -1 THEN w.pos ELSE size
    IN  [Called(w, "truncate", size) EXCEPT
            !.data = SubSeq(w.data, 1, Min(length, Len(w.data))),
            !.crc32 = IF length = 0 THEN <<0, 0>> ELSE w.crc32]

\* stream.truncate(size)
wrapper_truncate(w, size) ==
    LET length == IF size = -1 THEN w.pos ELSE size
    IN  IF length = 0
        THEN [Called(w, "truncate", size) EXCEPT
                 !.data = <<>>, !.crc32 = <<0, 0>>]
        ELSE IF length = w.pos
        THEN [Called(w, "truncate", size) EXCEPT
                 !.data = SubSeq(w.data, 1, Min(length, Len(w.data)))]
        ELSE [Called(w, "truncate", size) EXCEPT !.raised = TRUE]

(***************************************************************************)
(* A wrapper around an empty buffer or around b'abc' (TestCRCIOWrapper),   *)
(* and up to MaxWrapperOps calls on it.                                    *)
(***************************************************************************)
WrapperInputs ==
    /\ \E data \in {<<>>, <<97, 98, 99>>} : wrapper = NewWrapper(data)
    /\ measure = [pc |-> "idle"]
    /\ varint = [pc |-> "idle"]
    /\ codec = [pc |-> "idle"]

WrapperIdle ==
    /\ UNCHANGED <<measure, varint, codec>>
    /\ UNCHANGED streamVars
    /\ UNCHANGED diffVars

WrapperRead ==
    /\ wrapper.count < MaxWrapperOps
    /\ \E size \in 0..2 : wrapper' = wrapper_read(wrapper, size)
    /\ WrapperIdle

WrapperWrite ==
    /\ wrapper.count < MaxWrapperOps
    /\ \E buf \in {<<97>>, <<98, 99>>} : wrapper' = wrapper_write(wrapper, buf)
    /\ WrapperIdle

WrapperSeek ==
    /\ wrapper.count < MaxWrapperOps
    /\ \E offset \in {0, wrapper.pos} : wrapper' = wrapper_seek(wrapper, offset)
    /\ WrapperIdle

WrapperTruncate ==
    /\ wrapper.count < MaxWrapperOps
    /\ \E size \in -1..(Len(wrapper.data) + 2) :
           wrapper' = wrapper_truncate(wrapper, size)
    /\ WrapperIdle

InitWrapper == InitStream /\ IdleDiff /\ WrapperInputs

NextWrapper == WrapperRead \/ WrapperWrite \/ WrapperSeek \/ WrapperTruncate

SpecWrapper == InitWrapper /\ [][NextWrapper]_vars

(***************************************************************************)
(* The binary patch format (blip.constants, struct, str.encode).  A file   *)
(* is a sequence of bytes, a text a sequence of code points.               *)
(***************************************************************************)
BLIP_MAGIC_BYTES == <<98, 108, 105, 112>>
OPCODEMASK == 3
OPCODESHIFT == 2
OP_SOURCEREAD == 0
OP_TARGETREAD == 1
OP_SOURCECOPY == 2
OP_TARGETCOPY == 3

\* struct.pack("I", value) and struct.unpack("I", bytes)[0], little-endian.
pack(value) ==
    <<value[2] % 256, value[2] \div 256, value[1] % 256, value[1] \div 256>>

unpack(bytes) == <<bytes[3] + 256 * bytes[4], bytes[1] + 256 * bytes[2]>>

\* str.encode('utf-8')
RECURSIVE utf8_encode(_)
utf8_encode(text) ==
    IF text = <<>> THEN <<>>
    ELSE LET c == Head(text)
             first ==
                 IF c < 128 THEN <<c>>
                 ELSE IF c < 2048 THEN <<192 + (c \div 64), 128 + (c % 64)>>
                 ELSE IF c < 65536
                 THEN <<224 + (c \div 4096), 128 + ((c \div 64) % 64),
                        128 + (c % 64)>>
                 ELSE <<240 + (c \div 262144), 128 + ((c \div 4096) % 64),
                        128 + ((c \div 64) % 64), 128 + (c % 64)>>
         IN  first \o utf8_encode(Tail(text))

\* The number of bytes of the character a byte starts, 0 if it starts none.
Utf8Width(b) ==
    IF b < 128 THEN 1
    ELSE IF b >= 194 /\ b <= 223 THEN 2
    ELSE IF b >= 224 /\ b <= 239 THEN 3
    ELSE IF b >= 240 /\ b <= 244 THEN 4
    ELSE 0

Continuation(b) == b >= 128 /\ b <= 191

\* bytes.decode('utf-8') from position i (strict): [ok, text].
RECURSIVE Utf8DecodeFrom(_, _, _)
Utf8DecodeFrom(bytes, i, text) ==
    IF i > Len(bytes) THEN [ok |-> TRUE, text |-> text]
    ELSE LET b == bytes[i]
             w == Utf8Width(b)
             whole == w > 0 /\ i + w - 1 <= Len(bytes)
             good ==
                 /\ whole
                 /\ \A k \in 1..(w - 1) : Continuation(bytes[i + k])
                 /\ b = 224 => bytes[i + 1] >= 160
                 /\ b = 237 => bytes[i + 1] <= 159
                 /\ b = 240 => bytes[i + 1] >= 144
                 /\ b = 244 => bytes[i + 1] <= 143
             c == CASE w = 1 -> b
                    [] w = 2 -> (b - 192) * 64 + (bytes[i + 1] - 128)
                    [] w = 3 -> (b - 224) * 4096 + (bytes[i + 1] - 128) * 64
                                + (bytes[i + 2] - 128)
                    [] OTHER -> (b - 240) * 262144
                                + (bytes[i + 1] - 128) * 4096
                                + (bytes[i + 2] - 128) * 64
                                + (bytes[i + 3] - 128)
         IN  IF good THEN Utf8DecodeFrom(bytes, i + w, Append(text, c))
             ELSE [ok |-> FALSE, text |-> text]

utf8_decode(bytes) == Utf8DecodeFrom(bytes, 1, <<>>)

(***************************************************************************)
(* list(check_stream(iterable)) for a finite iterable: the items yielded   *)
(* and whether the generator returned (ok) or raised CorruptFile.          *)
(***************************************************************************)
RECURSIVE Drain(_, _, _, _)
Drain(f, iterable, i, out) ==
    LET nx == IF i > Len(iterable) THEN Stop ELSE Got(iterable[i])
        r == check_stream(f, nx)
    IN  IF r.kind = "item" THEN Drain(r.f, iterable, i + 1, Append(out, r.item))
        ELSE [ok |-> r.kind = "stop", items |-> out]

checked(iterable) == Drain(NewFrame, iterable, 1, <<>>)

(***************************************************************************)
(* write_blip: the bytes written for each item check_stream yields, then   *)
(* the CRC32 of all of them.  When check_stream raises, the bytes of the   *)
(* items before are in the buffer and ok is FALSE.                         *)
(***************************************************************************)
\* Lines 378-384 and 388-394: the raw value of a signed offset.
RawOffset(offset) == Abs(offset) * 2 + (IF offset < 0 THEN 1 ELSE 0)

WriteItem(item) ==
    CASE item.i0 = BLIP_MAGIC ->
            LET encoded == utf8_encode(item.v3)
            IN  BLIP_MAGIC_BYTES \o encode_var_int(item.v1)
                \o encode_var_int(item.v2) \o encode_var_int(Len(encoded))
                \o encoded
      [] item.i0 = SOURCEREAD ->
            encode_var_int((item.v1 - 1) * 4 + OP_SOURCEREAD)
      [] item.i0 = TARGETREAD ->
            encode_var_int((Len(item.d1) - 1) * 4 + OP_TARGETREAD) \o item.d1
      [] item.i0 = SOURCECOPY ->
            encode_var_int((item.v1 - 1) * 4 + OP_SOURCECOPY)
            \o encode_var_int(RawOffset(item.v2))
      [] item.i0 = TARGETCOPY ->
            encode_var_int((item.v1 - 1) * 4 + OP_TARGETCOPY)
            \o encode_var_int(RawOffset(item.v2))
      [] OTHER -> pack(<<item.h1, item.v1>>)

RECURSIVE WriteItems(_, _)
WriteItems(items, i) ==
    IF i > Len(items) THEN <<>>
    ELSE WriteItem(items[i]) \o WriteItems(items, i + 1)

write_blip(iterable) ==
    LET c == checked(iterable)
        body == WriteItems(c.items, 1)
    IN  [ok |-> c.ok,
         bytes |-> IF c.ok THEN body \o pack(crc32(body)) ELSE body]

(***************************************************************************)
(* read_blip: one resumption of the generator.  f is its frame: pos is the *)
(* number of bytes read from the file, which is what the CRCIOWrapper's    *)
(* crc32 covers.  error names what was raised: "magic" or "checksum"       *)
(* (CorruptFile), "varint" (the file ended inside a varint), "decode"      *)
(* (UnicodeDecodeError), "struct" (struct.error: fewer than 4 bytes).      *)
(* raw_offset is -1 until a copy assigns it.                               *)
(***************************************************************************)
NewReader ==
    [pc |-> "header", pos |-> 0, targetsize |-> 0, targetoffset |-> 0,
     raw_offset |-> -1, error |-> "none"]

Fail(f, error) ==
    [f |-> [f EXCEPT !.pc = "error", !.error = error], kind |-> "raise",
     item |-> NoItem]

\* in_buf.read(size) at position pos
ReadBytes(file, pos, size) == Slice(file, Min(pos, Len(file)), pos + size)

\* Lines 299-311: the offset a raw value stands for.
SignedOffset(raw_offset) ==
    IF raw_offset % 2 = 1 THEN -(raw_offset \div 2) ELSE raw_offset \div 2

\* A signed offset that drops the sign bit.
SignedOffsetUnsigned(raw_offset) == raw_offset \div 2

ReadHeader(f, file) ==
    LET magic == ReadBytes(file, 0, 4)
        sourcesize == read_var_int(file, 4)
        targetsize == read_var_int(file, sourcesize.pos)
        metadatasize == read_var_int(file, targetsize.pos)
        raw == ReadBytes(file, metadatasize.pos, metadatasize.value)
        decoded == utf8_decode(raw)
    IN  IF magic # BLIP_MAGIC_BYTES THEN Fail(f, "magic")
        ELSE IF ~sourcesize.ok \/ ~targetsize.ok \/ ~metadatasize.ok
        THEN Fail(f, "varint")
        ELSE IF ~decoded.ok THEN Fail(f, "decode")
        ELSE Yield([f EXCEPT !.pc = "ops",
                             !.pos = metadatasize.pos + Len(raw),
                             !.targetsize = targetsize.value],
                   HeaderItem(sourcesize.value, targetsize.value,
                              decoded.text))

ReadOperation(f, file) ==
    LET value == read_var_int(file, f.pos)
        opcode == value.value % (OPCODEMASK + 1)
        length == (value.value \div (2 ^ OPCODESHIFT)) + 1
        raw_offset == read_var_int(file, value.pos)
        data == ReadBytes(file, value.pos, length)
        after == [f EXCEPT !.targetoffset = f.targetoffset + length]
    IN  IF ~value.ok THEN Fail(f, "varint")
        ELSE IF opcode = OP_SOURCEREAD
        THEN Yield([after EXCEPT !.pos = value.pos], SourceReadItem(length))
        ELSE IF opcode = OP_TARGETREAD
        THEN Yield([after EXCEPT !.pos = value.pos + Len(data)],
                   TargetReadItem(data))
        ELSE IF ~raw_offset.ok THEN Fail(f, "varint")
        ELSE IF opcode = OP_SOURCECOPY
        THEN Yield([after EXCEPT !.pos = raw_offset.pos,
                                 !.raw_offset = raw_offset.value],
                   SourceCopyItem(length, SignedOffset(raw_offset.value)))
        ELSE Yield([after EXCEPT !.pos = raw_offset.pos,
                                 !.raw_offset = raw_offset.value],
                   TargetCopyItem(length, SignedOffset(raw_offset.value)))

\* Lines 320-321: a CRC32 item from the next four bytes.
ReadCRC32(f, file, label, pc) ==
    LET bytes == ReadBytes(file, f.pos, 4)
        value == unpack(bytes)
    IN  IF Len(bytes) < 4 THEN Fail(f, "struct")
        ELSE Yield([f EXCEPT !.pc = pc, !.pos = f.pos + 4],
                   IF label = SOURCECRC32
                   THEN SourceCRC32Item(value[1], value[2])
                   ELSE TargetCRC32Item(value[1], value[2]))

\* Lines 323-332 without the comparison.
ReadChecksumUnchecked(f, file) ==
    LET bytes == ReadBytes(file, f.pos, 4)
    IN  IF Len(bytes) < 4 THEN Fail(f, "struct")
        ELSE [f |-> [f EXCEPT !.pc = "done", !.pos = f.pos + 4],
              kind |-> "stop", item |-> NoItem]

\* Lines 323-332 comparing the low halves only.
ReadChecksumLow(f, file) ==
    LET actual == crc32(SubSeq(file, 1, f.pos))
        bytes == ReadBytes(file, f.pos, 4)
    IN  IF Len(bytes) < 4 THEN Fail(f, "struct")
        ELSE IF unpack(bytes)[2] # actual[2]
        THEN Fail([f EXCEPT !.pos = f.pos + 4], "checksum")
        ELSE [f |-> [f EXCEPT !.pc = "done", !.pos = f.pos + 4],
              kind |-> "stop", item |-> NoItem]

\* Lines 323-332: the patch's own CRC32.
ReadChecksum(f, file) ==
    LET actual == crc32(SubSeq(file, 1, f.pos))
        bytes == ReadBytes(file, f.pos, 4)
    IN  IF Len(bytes) < 4 THEN Fail(f, "struct")
        ELSE IF unpack(bytes) # actual
        THEN Fail([f EXCEPT !.pos = f.pos + 4], "checksum")
        ELSE [f |-> [f EXCEPT !.pc = "done", !.pos = f.pos + 4],
              kind |-> "stop", item |-> NoItem]

read_blip(f, file) ==
    CASE f.pc = "header" -> ReadHeader(f, file)
      [] f.pc = "ops" ->
            IF f.targetoffset < f.targetsize THEN ReadOperation(f, file)
            ELSE ReadCRC32(f, file, SOURCECRC32, "targetcrc32")
      [] f.pc = "targetcrc32" -> ReadCRC32(f, file, TARGETCRC32, "checksum")
      [] f.pc = "checksum" -> ReadChecksum(f, file)
      [] OTHER -> [f |-> f, kind |-> "stop", item |-> NoItem]

(***************************************************************************)
(* The textual patch format (blip-asm).  A text is a sequence of code      *)
(* points; 10 is the newline, 46 the dot, 58 the colon, 32 the space.      *)
(***************************************************************************)
BLIPASM_MAGIC == <<98, 108, 105, 112, 97, 115, 109, 10>>
SOURCESIZE == <<115, 111, 117, 114, 99, 101, 45, 115, 105, 122, 101>>
TARGETSIZE == <<116, 97, 114, 103, 101, 116, 45, 115, 105, 122, 101>>
METADATA == <<109, 101, 116, 97, 100, 97, 116, 97>>

\* The characters of an item's label.
Characters(label) ==
    CASE label = SOURCEREAD ->
            <<115, 111, 117, 114, 99, 101, 114, 101, 97, 100>>
      [] label = TARGETREAD ->
            <<116, 97, 114, 103, 101, 116, 114, 101, 97, 100>>
      [] label = SOURCECOPY ->
            <<115, 111, 117, 114, 99, 101, 99, 111, 112, 121>>
      [] label = TARGETCOPY ->
            <<116, 97, 114, 103, 101, 116, 99, 111, 112, 121>>
      [] label = SOURCECRC32 ->
            <<115, 111, 117, 114, 99, 101, 99, 114, 99, 51, 50>>
      [] label = TARGETCRC32 ->
            <<116, 97, 114, 103, 101, 116, 99, 114, 99, 51, 50>>
      [] OTHER -> <<>>

\* "{0:d}".format(n)
RECURSIVE Decimal(_)
Decimal(n) ==
    IF n < 0 THEN <<45>> \o Decimal(-n)
    ELSE IF n < 10 THEN <<48 + n>>
    ELSE Decimal(n \div 10) \o <<48 + (n % 10)>>

\* "{0:+d}".format(n)
SignedDecimal(n) == IF n < 0 THEN Decimal(n) ELSE <<43>> \o Decimal(n)

HexDigit(d, upper) ==
    IF d < 10 THEN 48 + d ELSE IF upper THEN 55 + d ELSE 87 + d

\* "{0:04X}".format(n) for n < 65536
Hex4(n) ==
    <<HexDigit(n \div 4096, TRUE), HexDigit((n \div 256) % 16, TRUE),
      HexDigit((n \div 16) % 16, TRUE), HexDigit(n % 16, TRUE)>>

\* "{0:08X}".format(value) for a value kept as halves
Hex8(hi, lo) == Hex4(hi) \o Hex4(lo)

\* b2a_hex(data).decode('ascii')
RECURSIVE b2a_hex(_)
b2a_hex(data) ==
    IF data = <<>> THEN <<>>
    ELSE <<HexDigit(Head(data) \div 16, FALSE), HexDigit(Head(data) % 16, FALSE)>>
         \o b2a_hex(Tail(data))

\* The value of a hexadecimal digit, -1 for any other character.
HexValue(c) ==
    IF c >= 48 /\ c <= 57 THEN c - 48
    ELSE IF c >= 65 /\ c <= 70 THEN c - 55
    ELSE IF c >= 97 /\ c <= 102 THEN c - 87
    ELSE -1

\* NON_HEX_DIGIT_RE.sub("", text)
RECURSIVE OnlyHex(_)
OnlyHex(text) ==
    IF text = <<>> THEN <<>>
    ELSE (IF HexValue(Head(text)) >= 0 THEN <<Head(text)>> ELSE <<>>)
         \o OnlyHex(Tail(text))

\* a2b_hex(digits): [ok, data]; an odd number of digits is binascii.Error.
RECURSIVE HexPairs(_)
HexPairs(digits) ==
    IF Len(digits) < 2 THEN <<>>
    ELSE <<HexValue(digits[1]) * 16 + HexValue(digits[2])>>
         \o HexPairs(SubSeq(digits, 3, Len(digits)))

a2b_hex(digits) == [ok |-> Len(digits) % 2 = 0, data |-> HexPairs(digits)]

\* str.strip() for the white space of the format: spaces and newlines.
RECURSIVE Strip(_)
Strip(text) ==
    IF text = <<>> THEN <<>>
    ELSE IF Head(text) \in {32, 10} THEN Strip(Tail(text))
    ELSE IF text[Len(text)] \in {32, 10}
    THEN Strip(SubSeq(text, 1, Len(text) - 1))
    ELSE text

RECURSIVE DigitsValue(_, _, _)
DigitsValue(digits, base, acc) ==
    IF digits = <<>> THEN acc
    ELSE DigitsValue(Tail(digits), base, acc * base + HexValue(Head(digits)))

\* int(text): [ok, value]; ok is FALSE for ValueError.
ParseInt(text) ==
    LET stripped == Strip(text)
        signed == stripped # <<>> /\ stripped[1] \in {43, 45}
        digits == IF signed THEN Tail(stripped) ELSE stripped
        ok == /\ digits # <<>>
              /\ \A i \in 1..Len(digits) : digits[i] >= 48 /\ digits[i] <= 57
        value == DigitsValue(digits, 10, 0)
    IN  [ok |-> ok,
         value |-> IF ~ok THEN 0
                   ELSE IF signed /\ stripped[1] = 45 THEN -value ELSE value]

\* int(text, 16) as halves: [ok, hi, lo]
ParseHex(text) ==
    LET digits == Strip(text)
        ok == /\ digits # <<>> /\ Len(digits) <= 8
              /\ \A i \in 1..Len(digits) : HexValue(digits[i]) >= 0
        low == SubSeq(digits, Len(digits) - Min(4, Len(digits)) + 1, Len(digits))
        high == SubSeq(digits, 1, Len(digits) - Len(low))
    IN  [ok |-> ok,
         hi |-> IF ok THEN DigitsValue(high, 16, 0) ELSE 0,
         lo |-> IF ok THEN DigitsValue(low, 16, 0) ELSE 0]

\* The index of the first c in text after position pos, 0 if there is none.
RECURSIVE IndexAfter(_, _, _)
IndexAfter(text, c, pos) ==
    IF pos >= Len(text) THEN 0
    ELSE IF text[pos + 1] = c THEN pos + 1
    ELSE IndexAfter(text, c, pos + 1)

\* in_buf.readline() at position pos: the line with its newline, or what is
\* left of the text.
readline(text, pos) ==
    LET newline == IndexAfter(text, 10, pos)
    IN  SubSeq(text, pos + 1, IF newline = 0 THEN Len(text) ELSE newline)

\* line.split(":") unpacked into two names: [ok, label, value]; any number
\* of colons but one is a ValueError.
SplitColon(line) ==
    LET colon == IndexAfter(line, 58, 0)
    IN  [ok |-> colon # 0 /\ IndexAfter(line, 58, colon) = 0,
         label |-> SubSeq(line, 1, colon - 1),
         value |-> SubSeq(line, colon + 1, Len(line))]

\* value.split(): the words between white space.
RECURSIVE Words(_, _)
Words(text, word) ==
    IF text = <<>> THEN (IF word = <<>> THEN <<>> ELSE <<word>>)
    ELSE IF Head(text) \in {32, 10}
    THEN (IF word = <<>> THEN <<>> ELSE <<word>>) \o Words(Tail(text), <<>>)
    ELSE Words(Tail(text), Append(word, Head(text)))

\* metadata.split("\n")
RECURSIVE SplitLines(_, _)
SplitLines(text, line) ==
    IF text = <<>> THEN <<line>>
    ELSE IF Head(text) = 10 THEN <<line>> \o SplitLines(Tail(text), <<>>)
    ELSE SplitLines(Tail(text), Append(line, Head(text)))

(***************************************************************************)
(* write_blip_asm: the text written for the items check_stream yields.     *)
(***************************************************************************)
\* WriteLines without the escape of lines 494-495.
RECURSIVE WriteLinesPlain(_, _)
WriteLinesPlain(lines, i) ==
    IF i > Len(lines) THEN <<>>
    ELSE lines[i] \o <<10>> \o WriteLinesPlain(lines, i + 1)

\* Lines 491-498: a line starting with a dot gets one more, and every line
\* gets a newline.
RECURSIVE WriteLines(_, _)
WriteLines(lines, i) ==
    IF i > Len(lines) THEN <<>>
    ELSE (IF lines[i] # <<>> /\ lines[i][1] = 46 THEN <<46>> ELSE <<>>)
         \o lines[i] \o <<10>> \o WriteLines(lines, i + 1)

\* Lines 487-500: the metadata block.
WriteMetadata(text) ==
    LET split == SplitLines(text, <<>>)
        lines == IF split[Len(split)] = <<>>
                 THEN SubSeq(split, 1, Len(split) - 1) ELSE split
    IN  METADATA \o <<58, 10>> \o WriteLines(lines, 1) \o <<46, 10>>

\* Lines 509-514: forty bytes to a line.
RECURSIVE HexLines(_)
HexLines(data) ==
    IF Len(data) > 40
    THEN b2a_hex(SubSeq(data, 1, 40)) \o <<10>>
         \o HexLines(SubSeq(data, 41, Len(data)))
    ELSE b2a_hex(data) \o <<10, 46, 10>>

WriteAsmItem(item) ==
    CASE item.i0 = BLIP_MAGIC ->
            BLIPASM_MAGIC
            \o SOURCESIZE \o <<58, 32>> \o Decimal(item.v1) \o <<10>>
            \o TARGETSIZE \o <<58, 32>> \o Decimal(item.v2) \o <<10>>
            \o WriteMetadata(item.v3)
      [] item.i0 = SOURCEREAD ->
            Characters(item.i0) \o <<58, 32>> \o Decimal(item.v1) \o <<10>>
      [] item.i0 = TARGETREAD ->
            Characters(item.i0) \o <<58, 10>> \o HexLines(item.d1)
      [] item.i0 \in {SOURCECOPY, TARGETCOPY} ->
            Characters(item.i0) \o <<58, 32>> \o Decimal(item.v1) \o <<32>>
            \o SignedDecimal(item.v2) \o <<10>>
      [] OTHER ->
            Characters(item.i0) \o <<58, 32>> \o Hex8(item.h1, item.v1) \o <<10>>

RECURSIVE WriteAsmItems(_, _)
WriteAsmItems(items, i) ==
    IF i > Len(items) THEN <<>>
    ELSE WriteAsmItem(items[i]) \o WriteAsmItems(items, i + 1)

write_blip_asm(iterable) ==
    LET c == checked(iterable)
    IN  [ok |-> c.ok, text |-> WriteAsmItems(c.items, 1)]

(***************************************************************************)
(* read_blip_asm.  A helper's ok is FALSE when the code raises             *)
(* (CorruptFile, ValueError).  When _read_multiline_text meets the end of  *)
(* the text readline returns "" for ever: "" is not ".\n", so the          *)
(* `while True` of line 255 never breaks and the call never returns; the   *)
(* helper's eof is TRUE then, and hang is TRUE in what is made of it.      *)
(***************************************************************************)
\* _read_multiline_text from position pos: [ok, eof, text, pos]
RECURSIVE ReadMultiline(_, _, _)
ReadMultiline(text, pos, lines) ==
    LET line == readline(text, pos)
    IN  IF line = <<>>
        THEN [ok |-> FALSE, eof |-> TRUE, text |-> lines, pos |-> pos]
        ELSE IF line = <<46, 10>>
        THEN [ok |-> TRUE, eof |-> FALSE, text |-> lines, pos |-> pos + 2]
        ELSE ReadMultiline(text, pos + Len(line),
                           lines \o (IF line[1] = 46 THEN Tail(line) ELSE line))

_read_multiline_text(text, pos) == ReadMultiline(text, pos, <<>>)

\* A line "label: value": [ok, value, pos]
ReadField(text, pos, expected) ==
    LET line == readline(text, pos)
        split == SplitColon(line)
    IN  [ok |-> split.ok /\ split.label = expected,
         value |-> split.value, pos |-> pos + Len(line)]

\* Lines 422-428: a size line, [ok, value, pos]
SizeOf(field, size) ==
    [ok |-> field.ok /\ size.ok, value |-> size.value, pos |-> field.pos]

SizeField(field) == SizeOf(field, ParseInt(field.value))

ReadSize(text, pos, expected) == SizeField(ReadField(text, pos, expected))

\* Lines 430-432: the metadata block after its label, [ok, text, pos]
MetadataOf(field, block) ==
    [ok |-> field.ok /\ block.ok, hang |-> field.ok /\ block.eof,
     text |-> block.text, pos |-> block.pos]

MetadataField(text, field) ==
    MetadataOf(field, _read_multiline_text(text, field.pos))

ReadMetadata(text, pos) == MetadataField(text, ReadField(text, pos, METADATA))

\* Lines 415-434: the header, [ok, item, pos]; each line is read from where
\* the line before it ended.
HeaderOf(magic, sourcesize, targetsize, block) ==
    [ok |-> /\ magic = BLIPASM_MAGIC
            /\ sourcesize.ok /\ targetsize.ok /\ block.ok,
     hang |-> /\ magic = BLIPASM_MAGIC
              /\ sourcesize.ok /\ targetsize.ok /\ block.hang,
     item |-> HeaderItem(sourcesize.value, targetsize.value, block.text),
     pos |-> block.pos]

HeaderAfterSizes(text, magic, sourcesize, targetsize) ==
    HeaderOf(magic, sourcesize, targetsize, ReadMetadata(text, targetsize.pos))

HeaderAfterSourceSize(text, magic, sourcesize) ==
    HeaderAfterSizes(text, magic, sourcesize,
                     ReadSize(text, sourcesize.pos, TARGETSIZE))

HeaderAfterMagic(text, magic) ==
    HeaderAfterSourceSize(text, magic, ReadSize(text, Len(magic), SOURCESIZE))

ReadAsmHeader(text) == HeaderAfterMagic(text, readline(text, 0))

\* Lines 441-444: [ok, item, length, pos]
ReadAsmTargetRead(text, pos) ==
    LET block == _read_multiline_text(text, pos)
        data == a2b_hex(OnlyHex(block.text))
    IN  [ok |-> block.ok /\ data.ok, hang |-> block.eof,
         item |-> TargetReadItem(data.data),
         length |-> Len(data.data), pos |-> block.pos]

\* Lines 449-452: [ok, item, length, pos]
ReadAsmCopy(label, value, pos) ==
    LET words == Words(value, <<>>)
        length == ParseInt(words[1])
        offset == ParseInt(words[2])
    IN  IF Len(words) # 2 \/ ~length.ok \/ ~offset.ok
        THEN [ok |-> FALSE, hang |-> FALSE, item |-> NoItem, length |-> 0,
              pos |-> pos]
        ELSE [ok |-> TRUE, hang |-> FALSE,
              item |-> IF label = Characters(SOURCECOPY)
                       THEN SourceCopyItem(length.value, offset.value)
                       ELSE TargetCopyItem(length.value, offset.value),
              length |-> length.value, pos |-> pos]

\* Lines 437-457: one operation, [ok, item, length, pos]
ReadAsmOperation(text, pos) ==
    LET line == readline(text, pos)
        split == SplitColon(line)
        after == pos + Len(line)
        length == ParseInt(split.value)
    IN  IF ~split.ok
        THEN [ok |-> FALSE, hang |-> FALSE, item |-> NoItem, length |-> 0,
              pos |-> pos]
        ELSE IF split.label = Characters(SOURCEREAD)
        THEN [ok |-> length.ok, hang |-> FALSE,
              item |-> SourceReadItem(length.value),
              length |-> length.value, pos |-> after]
        ELSE IF split.label = Characters(TARGETREAD)
        THEN ReadAsmTargetRead(text, after)
        ELSE IF split.label \in {Characters(SOURCECOPY), Characters(TARGETCOPY)}
        THEN ReadAsmCopy(split.label, split.value, after)
        ELSE [ok |-> FALSE, hang |-> FALSE, item |-> NoItem, length |-> 0,
              pos |-> pos]

\* Lines 459-465: a CRC32 line, [ok, hi, lo, pos]
ReadAsmCRC32(text, pos, label) ==
    LET field == ReadField(text, pos, Characters(label))
        value == ParseHex(field.value)
    IN  [ok |-> field.ok /\ value.ok, hi |-> value.hi, lo |-> value.lo,
         pos |-> field.pos]

NewAsmReader ==
    [pc |-> "header", pos |-> 0, targetsize |-> 0, targetoffset |-> 0,
     error |-> "none"]

\* The resumption does not end: the generator stays in the loop of
\* _read_multiline_text, appending "" to lines.
Hang(f) == [f |-> [f EXCEPT !.pc = "looping"], kind |-> "loop", item |-> NoItem]

\* What a resumption ends in, given what was read: r is [ok, hang, item,
\* pos, length].
AsmYield(f, r, pc, error) ==
    IF r.hang THEN Hang(f)
    ELSE IF ~r.ok THEN Fail(f, error)
    ELSE Yield([f EXCEPT !.pc = pc, !.pos = r.pos,
                         !.targetoffset = f.targetoffset + r.length],
               r.item)

HeaderRead(header) ==
    [ok |-> header.ok, hang |-> header.hang, item |-> header.item, pos |-> header.pos, length |-> 0]

CRC32Read(r, label) ==
    [ok |-> r.ok, hang |-> FALSE, pos |-> r.pos, length |-> 0,
     item |-> IF label = SOURCECRC32 THEN SourceCRC32Item(r.hi, r.lo)
              ELSE TargetCRC32Item(r.hi, r.lo)]

AsmStarted(f, r) ==
    IF r.hang THEN Hang(f)
    ELSE IF ~r.ok THEN Fail(f, "header")
    ELSE Yield([f EXCEPT !.pc = "ops", !.pos = r.pos,
                         !.targetsize = r.item.v2],
               r.item)

AsmHeader(f, text) == AsmStarted(f, HeaderRead(ReadAsmHeader(text)))

AsmOperation(f, text) ==
    AsmYield(f, ReadAsmOperation(text, f.pos), "ops", "operation")

AsmCRC32(f, text, label, pc) ==
    AsmYield(f, CRC32Read(ReadAsmCRC32(text, f.pos, label), label), pc, "crc32")

\* One resumption of the generator read_blip_asm(in_buf).
read_blip_asm(f, text) ==
    CASE f.pc = "header" -> AsmHeader(f, text)
      [] f.pc = "ops" ->
            IF f.targetoffset < f.targetsize THEN AsmOperation(f, text)
            ELSE AsmCRC32(f, text, SOURCECRC32, "targetcrc32")
      [] f.pc = "targetcrc32" -> AsmCRC32(f, text, TARGETCRC32, "end")
      [] f.pc = "looping" -> Hang(f)
      [] OTHER -> [f |-> [f EXCEPT !.pc = "done"], kind |-> "stop",
                   item |-> NoItem]

(***************************************************************************)
(* A patch file: a valid stream of items is written by write_blip; the     *)
(* file is then read as it is, or with one byte replaced, or with one byte *)
(* replaced and the patch CRC32 written anew (a file some other encoder    *)
(* made).  It is read by check_stream(check_stream(read_blip(file))), one  *)
(* next() of the consumer at a time.  at is the position of the replaced   *)
(* byte (0: none), raws the raw offsets read_blip has decoded.  A file     *)
(* that was accepted is then converted to text by write_blip_asm and back  *)
(* to bytes by write_blip(read_blip_asm(text)): parsed holds the items     *)
(* read from the text and back the bytes written for them.                 *)
(***************************************************************************)
CodecCRCs == <<SourceCRC32Item(1, 2), TargetCRC32Item(3, 4)>>

CodecStreams ==
    {<<HeaderItem(1, 3, <<109>>), SourceReadItem(1), TargetReadItem(<<65>>),
       TargetCopyItem(1, 1)>> \o CodecCRCs,
     <<HeaderItem(2, 3, <<>>), SourceCopyItem(1, 0), SourceCopyItem(1, -1),
       TargetCopyItem(1, 0)>> \o CodecCRCs,
     <<HeaderItem(0, 1, <<109, 10>>), TargetReadItem(<<66>>)>> \o CodecCRCs}
    \cup {<<HeaderItem(MaxSourceSize, 0, <<>>)>> \o CodecCRCs}

CodecInputs ==
    /\ \E stream \in CodecStreams :
          codec = [pc |-> "start", stream |-> stream, file |-> <<>>,
                   at |-> 0, sealed |-> TRUE, rd |-> NewReader,
                   raws |-> <<>>, text |-> <<>>, asm |-> NewAsmReader,
                   parsed |-> <<>>, back |-> <<>>]
    /\ measure = [pc |-> "idle"]
    /\ varint = [pc |-> "idle"]
    /\ wrapper = [pc |-> "idle"]

CodecIdle ==
    /\ UNCHANGED <<measure, varint, wrapper>>
    /\ UNCHANGED diffVars

\* write_blip(iter(stream), out_buf)
CodecWrite ==
    /\ codec.pc = "start"
    /\ LET w == write_blip(codec.stream)
       IN  codec' = [codec EXCEPT !.pc = IF w.ok THEN "written" ELSE "failed",
                                  !.file = w.bytes]
    /\ UNCHANGED streamVars
    /\ CodecIdle

\* One byte of the file is replaced by another value.
CodecMutate ==
    /\ codec.pc = "written" /\ codec.at = 0
    /\ \E i \in 1..Len(codec.file) :
       \E b \in (0..255) \ {codec.file[i]} :
          codec' = [codec EXCEPT !.file = [codec.file EXCEPT ![i] = b],
                                 !.at = i, !.sealed = FALSE]
    /\ UNCHANGED streamVars
    /\ CodecIdle

\* The last four bytes become the CRC32 of the bytes before them.
CodecReseal ==
    /\ codec.pc = "written" /\ ~codec.sealed
    /\ codec.at <= Len(codec.file) - 4
    /\ LET body == SubSeq(codec.file, 1, Len(codec.file) - 4)
       IN  codec' = [codec EXCEPT !.file = body \o pack(crc32(body)),
                                  !.sealed = TRUE]
    /\ UNCHANGED streamVars
    /\ CodecIdle

\* next() on the pipeline: read_blip is resumed and what it yields or
\* raises goes through both check_stream generators.
CodecRead ==
    /\ codec.pc \in {"written", "reading"}
    /\ Running(outer)
    /\ LET r == read_blip(codec.rd, codec.file)
           copy == r.kind = "item" /\ r.item.i0 \in {SOURCECOPY, TARGETCOPY}
       IN  /\ Feed([kind |-> r.kind, item |-> r.item])
           /\ codec' = [codec EXCEPT
                  !.rd = r.f,
                  !.raws = IF copy THEN Append(@, r.f.raw_offset) ELSE @,
                  !.pc = IF outer'.pc = "done" THEN "accepted"
                         ELSE IF outer'.pc = "corrupt" THEN "rejected"
                         ELSE "reading"]
    /\ CodecIdle

\* write_blip_asm(iter(items), out_buf) for the items the file decoded to.
CodecAssemble ==
    /\ codec.pc = "accepted"
    /\ LET w == write_blip_asm(pulled)
       IN  codec' = [codec EXCEPT
                        !.pc = IF w.ok THEN "assembled" ELSE "unconverted",
                        !.text = w.text]
    /\ UNCHANGED streamVars
    /\ CodecIdle

\* next() on read_blip_asm(in_buf) for the text; the items it yields are
\* kept for write_blip.
CodecParsed(r) ==
    [codec EXCEPT
        !.asm = r.f,
        !.parsed = IF r.kind = "item" THEN Append(@, r.item) ELSE @,
        !.pc = IF r.kind = "item" THEN "assembled"
               ELSE IF r.kind = "stop" THEN "parsed"
               ELSE IF r.kind = "loop" THEN "looping"
               ELSE "unconverted"]

CodecParse ==
    /\ codec.pc = "assembled"
    /\ codec' = CodecParsed(read_blip_asm(codec.asm, codec.text))
    /\ UNCHANGED streamVars
    /\ CodecIdle

\* write_blip(iterable, out_buf) for the items read_blip_asm yielded.
CodecReassemble ==
    /\ codec.pc = "parsed"
    /\ LET w == write_blip(codec.parsed)
       IN  codec' = [codec EXCEPT
                        !.pc = IF w.ok THEN "converted" ELSE "unconverted",
                        !.back = w.bytes]
    /\ UNCHANGED streamVars
    /\ CodecIdle

InitCodec == InitStream /\ IdleDiff /\ CodecInputs

NextCodec ==
    \/ CodecWrite \/ CodecMutate \/ CodecReseal \/ CodecRead
    \/ CodecAssemble \/ CodecParse \/ CodecReassemble

SpecCodec == InitCodec /\ [][NextCodec]_vars

(***************************************************************************)
(* A blip-asm text: a stream of items is written by write_blip_asm and the *)
(* text is read by read_blip_asm, one next() at a time, as it is or cut    *)
(* short at some character, as a file that was not written to its end.     *)
(* The streams are those of the patch files above and, for every metadata  *)
(* string of up to MaxLines newline-terminated lines of up to MaxLineLen   *)
(* characters, a stream with that metadata and one TargetRead.             *)
(***************************************************************************)
\* The characters of a metadata line: '.' and 'm'.
MetadataCharacters == {46, 109}

\* The lines of up to n characters, each with its newline.
RECURSIVE MetadataLines(_)
MetadataLines(n) ==
    IF n = 0 THEN {<<10>>}
    ELSE LET shorter == MetadataLines(n - 1)
         IN  shorter \cup {<<c>> \o line : c \in MetadataCharacters,
                                           line \in {x \in shorter : Len(x) = n}}

\* The strings of up to n lines.
RECURSIVE Metadatas(_)
Metadatas(n) ==
    IF n = 0 THEN {<<>>}
    ELSE LET fewer == Metadatas(n - 1)
         IN  fewer \cup {line \o text : line \in MetadataLines(MaxLineLen),
                                        text \in fewer}

AsmStreams ==
    CodecStreams
    \cup {<<HeaderItem(0, 1, text), TargetReadItem(<<65>>)>> \o CodecCRCs :
             text \in Metadatas(MaxLines)}

AsmInputs ==
    /\ \E stream \in AsmStreams :
          codec = [pc |-> "drafted", stream |-> stream, text |-> <<>>,
                   cut |-> FALSE, asm |-> NewAsmReader, parsed |-> <<>>]
    /\ measure = [pc |-> "idle"]
    /\ varint = [pc |-> "idle"]
    /\ wrapper = [pc |-> "idle"]

\* write_blip_asm(iter(stream), out_buf)
AsmWrite ==
    /\ codec.pc = "drafted"
    /\ LET w == write_blip_asm(codec.stream)
       IN  codec' = [codec EXCEPT
                        !.pc = IF w.ok THEN "assembled" ELSE "unconverted",
                        !.text = w.text]
    /\ UNCHANGED streamVars
    /\ CodecIdle

\* The text of a patch stream loses its end before it is read.
AsmCut ==
    /\ codec.pc = "assembled" /\ ~codec.cut
    /\ codec.asm = NewAsmReader
    /\ codec.stream \in CodecStreams
    /\ \E kept \in 0..(Len(codec.text) - 1) :
          codec' = [codec EXCEPT !.text = SubSeq(codec.text, 1, kept),
                                 !.cut = TRUE]
    /\ UNCHANGED streamVars
    /\ CodecIdle

InitAsm == InitStream /\ IdleDiff /\ AsmInputs

NextAsm == AsmWrite \/ AsmCut \/ CodecParse

SpecAsm == InitAsm /\ [][NextAsm]_vars

(***************************************************************************)
(* The stream invariants, stated over a whole sequence of items.  These    *)
(* definitions are the yardstick the validator is measured against; they   *)
(* use nothing of check_stream.                                            *)
(***************************************************************************)
Last(seq) == seq[Len(seq)]
Front(seq) == SubSeq(seq, 1, Len(seq) - 1)

HeaderKind(item) == item.t0 = "bytes" /\ item.i0 = BLIP_MAGIC
MiddleKind(item) ==
    item.t0 = "str" /\ item.i0 \in {SOURCEREAD, TARGETREAD, SOURCECOPY, TARGETCOPY}
CopyKind(item) == item.t0 = "str" /\ item.i0 \in {SOURCECOPY, TARGETCOPY}

WellFormedHeader(item) ==
    /\ HeaderKind(item) /\ item.n = 4
    /\ item.t1 = "int" /\ item.v1 >= 0
    /\ item.t2 = "int" /\ item.v2 >= 0
    /\ item.t3 = "str"

\* A middle operation with the fields of its kind, whatever its values.
WellTyped(item) ==
    \/ IsOp(item, SOURCEREAD) /\ item.n = 2 /\ item.t1 = "int"
    \/ IsOp(item, TARGETREAD) /\ item.n = 2 /\ item.t1 = "bytes"
    \/ CopyKind(item) /\ item.n = 3 /\ item.t1 = "int" /\ item.t2 = "int"

WellFormedCRC(item, opcode) ==
    /\ IsOp(item, opcode) /\ item.n = 2 /\ item.t1 = "int"
    /\ item.h1 >= 0 /\ item.h1 < 65536

\* bytespan: the number of target bytes an operation writes.
Span(item) ==
    IF ~WellTyped(item) THEN 0
    ELSE IF IsOp(item, TARGETREAD) THEN Len(item.d1) ELSE item.v1

\* Bytes written by the operations seq[2..k].
RECURSIVE WrittenTo(_, _)
WrittenTo(seq, k) ==
    IF k < 2 THEN 0 ELSE WrittenTo(seq, k - 1) + Span(seq[k])

Written(seq) == WrittenTo(seq, Len(seq))

\* Sum of offset + length over the operations of one copy kind in seq[2..k].
RECURSIVE CursorTo(_, _, _)
CursorTo(seq, k, opcode) ==
    IF k < 2 THEN 0
    ELSE CursorTo(seq, k - 1, opcode)
         + (IF IsOp(seq[k], opcode) /\ WellTyped(seq[k])
            THEN seq[k].v2 + seq[k].v1 ELSE 0)

SourceSizeOf(seq) == seq[1].v1
TargetSizeOf(seq) == seq[1].v2

\* Operation seq[i] satisfies the invariant of its kind.
MiddleOK(seq, i) ==
    LET item == seq[i]
        w == WrittenTo(seq, i - 1)
    IN  /\ WellTyped(item)
        /\ Span(item) >= 1
        /\ w + Span(item) <= TargetSizeOf(seq)
        /\ IsOp(item, SOURCEREAD) => w + item.v1 <= SourceSizeOf(seq)
        /\ IsOp(item, SOURCECOPY) =>
              LET c == CursorTo(seq, i - 1, SOURCECOPY) + item.v2
              IN  0 <= c /\ c + item.v1 <= SourceSizeOf(seq)
        /\ IsOp(item, TARGETCOPY) =>
              LET c == CursorTo(seq, i - 1, TARGETCOPY) + item.v2
              IN  0 <= c /\ c < w

AllMiddle(seq, k) == \A j \in 2..k : MiddleKind(seq[j])

\* seq[i] may stand where it stands in a valid stream.
ItemOK(seq, i) ==
    IF i = 1 THEN WellFormedHeader(seq[1])
    ELSE IF MiddleKind(seq[i]) THEN AllMiddle(seq, i - 1) /\ MiddleOK(seq, i)
    ELSE IF WellFormedCRC(seq[i], SOURCECRC32)
         THEN AllMiddle(seq, i - 1) /\ WrittenTo(seq, i - 1) = TargetSizeOf(seq)
    ELSE IF WellFormedCRC(seq[i], TARGETCRC32)
         THEN i >= 3 /\ WellFormedCRC(seq[i - 1], SOURCECRC32)
    ELSE FALSE

\* seq begins a stream that satisfies every stream invariant (the items are
\* taken last to first).
ValidPrefix(seq) == \A i \in 1..Len(seq) : ItemOK(seq, Len(seq) + 1 - i)

\* seq is a stream that satisfies every stream invariant.
ValidStream(seq) ==
    /\ Len(seq) >= 3
    /\ ValidPrefix(seq)
    /\ WellFormedCRC(Last(seq), TARGETCRC32)

\* The validator pulled Last(seq) inside its while loop.
PulledInLoop(seq) ==
    /\ Len(seq) >= 2
    /\ AllMiddle(seq, Len(seq) - 1)
    /\ Written(Front(seq)) < TargetSizeOf(seq)
    /\ ValidPrefix(Front(seq))

\* The operations of one kind that diff_bytearrays has yielded.
Yielded(kind) == {i \in 1..Len(ops) : ops[i].kind = kind}

(***************************************************************************)
(* C1.  Round trip: for every source, target and metadata, applying what   *)
(* diff_bytearrays(source, target) yields to source, in a buffer of        *)
(* len(target) bytes, never fails, has at every moment written a prefix of *)
(* target, and leaves the buffer equal to target when the stream ends.     *)
(***************************************************************************)
C1_RoundTrip ==
    /\ app.pc # "error"
    /\ diff.pc # "crashed"
    /\ ops # <<>> =>
          /\ Len(app.buffer) = Len(target)
          /\ app.writeOffset <= Len(target)
          /\ SubSeq(app.buffer, 1, app.writeOffset)
                 = SubSeq(target, 1, app.writeOffset)
    /\ diff.pc = "returned" => app.buffer = target

C1_Witness ==
    /\ diff.pc = "returned"
    /\ app.buffer = target
    /\ Len(target) = MaxLen
    /\ target # source
    /\ Yielded("SourceCopy") # {}
    /\ Yielded("TargetCopy") # {}

(***************************************************************************)
(* C2.  What diff_bytearrays yields is accepted in full by the validator,  *)
(* the copy offsets being deltas from the encoder's cursors: the header    *)
(* carries len(source) and len(target), every SourceRead, SourceCopy and   *)
(* TargetCopy has length >= 1, every TargetRead is non-empty, every copy   *)
(* stays inside its bounds, and the bytespans of the middle operations add *)
(* up to len(target).                                                      *)
(***************************************************************************)
C2_DiffAccepted ==
    /\ inner.pc # "corrupt"
    /\ diff.pc # "crashed"
    /\ yielded = pulled
    /\ Len(pulled) = Len(ops)
    /\ \A i \in 1..Len(ops) :
          ops[i].kind \in {"SourceRead", "SourceCopy", "TargetCopy", "TargetRead"}
              => ops[i].bytespan >= 1
    /\ \A i \in Yielded("TargetRead") : Len(ops[i].payload) = ops[i].bytespan
    /\ pulled # <<>> =>
          /\ SourceSizeOf(pulled) = Len(source)
          /\ TargetSizeOf(pulled) = Len(target)
    /\ ValidPrefix(pulled)
    /\ diff.pc = "returned" =>
          /\ inner.pc = "done"
          /\ ValidStream(pulled)
          /\ Written(pulled) = Len(target)

C2_Witness ==
    /\ diff.pc = "returned"
    /\ inner.pc = "done"
    /\ yielded = pulled
    /\ Yielded("SourceRead") # {}
    /\ \E i \in Yielded("TargetCopy") : ops[i].bytespan > 1

(***************************************************************************)
(* C15.  The scenario of testVariableBlockSize: diffing b'ABABAB' against  *)
(* b'AAABBB' with block size 2 yields exactly Header(6, 6, ""),            *)
(* TargetRead(b'AA'), SourceRead(2), TargetRead(b'BB'),                    *)
(* SourceCRC32(0x76F34B4D), TargetCRC32(0x1A7E625E); with block size 3 it  *)
(* yields exactly Header(6, 6, ""), TargetRead(b'AAABBB') and the same two *)
(* CRC operations.  0x76F34B4D is 30451 * 65536 + 19277 and 0x1A7E625E is  *)
(* 6782 * 65536 + 25182.                                                   *)
(***************************************************************************)
ScenarioOps2 ==
    << Header(6, 6, <<>>), TargetRead(<<65, 65>>), SourceRead(2),
       TargetRead(<<66, 66>>),
       SourceCRC32(<<30451, 19277>>), TargetCRC32(<<6782, 25182>>) >>

ScenarioOps3 ==
    << Header(6, 6, <<>>), TargetRead(<<65, 65, 65, 66, 66, 66>>),
       SourceCRC32(<<30451, 19277>>), TargetCRC32(<<6782, 25182>>) >>

IsPrefix(seq, whole) ==
    Len(seq) <= Len(whole) /\ seq = SubSeq(whole, 1, Len(seq))

CommonSuffix(a, i, b, j) ==
    LET agree == {k \in 0..Min(i, j) : \A h \in 0..(k - 1) : a[i - h] = b[j - h]}
    IN  CHOOSE k \in agree : \A other \in agree : other <= k

C19_BackwardSpan ==
    measure.pc = "returned" =>
        LET cap == Min(Min(measure.sourceoffset, measure.targetoffset),
                       measure.pendingTargetReadSize)
        IN  measure.backspan
               = Min(CommonSuffix(measure.blocksrc, measure.sourceoffset,
                                  measure.target, measure.targetoffset), cap)

(***************************************************************************)
(* C20.  measure_op with no actual match: when the forward span is zero    *)
(* (the bytes at refOff and targetOff differ) measure_op returns the empty *)
(* list, so that no operation of length zero is ever returned.             *)
(***************************************************************************)
C20_NoMatchEmpty ==
    measure.pc = "returned" =>
        /\ measure.forespan = 0 => measure.result = <<>>
        /\ \A i \in 1..Len(measure.result) : measure.result[i].bytespan >= 1

(***************************************************************************)
(* C3.  Validator pass-through: while the input satisfies the stream       *)
(* invariants check_stream has yielded every item pulled, unchanged and in *)
(* order, and has not raised; when such an input ends after its TargetCRC32*)
(* the generator returns normally.                                         *)
(***************************************************************************)
C3_PassThrough ==
    /\ (ValidPrefix(pulled) /\ ~exhausted) =>
           (inner.pc # "corrupt" /\ yielded = pulled)
    /\ (ValidStream(pulled) /\ exhausted) =>
           (inner.pc = "done" /\ yielded = pulled)

C3_Witness ==
    /\ exhausted /\ ValidStream(pulled) /\ inner.pc = "done"
    /\ \E i \in 2..Len(pulled) : IsOp(pulled[i], TARGETCOPY)
    /\ \E i \in 2..Len(pulled) : IsOp(pulled[i], SOURCECOPY)

(***************************************************************************)
(* C4.  Validator idempotence: on every input check_stream(check_stream(p))*)
(* has yielded the same items as check_stream(p) and is in the same        *)
(* condition: running, returned, or raised CorruptFile.                    *)
(***************************************************************************)
C4_Idempotent == reyielded = yielded /\ outer.pc = inner.pc

C4_Witness ==
    /\ inner.pc = "corrupt" /\ outer.pc = "corrupt"
    /\ Len(yielded) >= 3
    /\ \E i \in 2..Len(yielded) : IsOp(yielded[i], SOURCECOPY)

(***************************************************************************)
(* C5.  Stream shape: an input accepted in full is one header, then middle *)
(* operations only, then one SourceCRC32 and one TargetCRC32, and nothing  *)
(* after; an input that departs from that shape (empty, a header elsewhere,*)
(* a CRC marker missing, duplicated or swapped, an item after TargetCRC32) *)
(* makes check_stream raise CorruptFile.                                   *)
(***************************************************************************)
ShapeItemOK(seq, i) ==
    IF i = 1 THEN HeaderKind(seq[1])
    ELSE IF MiddleKind(seq[i]) THEN AllMiddle(seq, i - 1)
    ELSE IF IsOp(seq[i], SOURCECRC32) THEN AllMiddle(seq, i - 1)
    ELSE IF IsOp(seq[i], TARGETCRC32)
         THEN i >= 3 /\ IsOp(seq[i - 1], SOURCECRC32)
    ELSE FALSE

\* seq begins a sequence of the shape Header Middle* SourceCRC32 TargetCRC32.
ShapePrefix(seq) == \A i \in 1..Len(seq) : ShapeItemOK(seq, Len(seq) + 1 - i)

ShapeComplete(seq) ==
    Len(seq) >= 3 /\ ShapePrefix(seq) /\ IsOp(Last(seq), TARGETCRC32)

C5_Shape ==
    /\ inner.pc = "done" => (exhausted /\ ShapeComplete(pulled))
    /\ ~ShapePrefix(pulled) => inner.pc = "corrupt"
    /\ (exhausted /\ ~ShapeComplete(pulled)) => inner.pc = "corrupt"

C5_Witness ==
    /\ inner.pc = "corrupt"
    /\ Len(pulled) >= 4
    /\ ShapeComplete(Front(pulled))

(***************************************************************************)
(* C6.  The write offset: the operations yielded never write past          *)
(* targetSize, an operation that would is not yielded and raises           *)
(* CorruptFile, a CRC marker that arrives before targetSize bytes are      *)
(* written raises CorruptFile, and once a CRC marker is accepted the       *)
(* bytespans of the middle operations sum to exactly targetSize.           *)
(***************************************************************************)
C6_WriteOffset ==
    Len(pulled) >= 1 /\ WellFormedHeader(pulled[1]) =>
        /\ Written(yielded) <= TargetSizeOf(pulled)
        /\ inner.pc = "middle" => inner.targetWriteOffset = Written(yielded)
        /\ inner.pc \in {"targetcrc32", "trailing", "done"} =>
               Written(yielded) = TargetSizeOf(pulled)
        /\ Written(pulled) > TargetSizeOf(pulled) =>
               (inner.pc = "corrupt" /\ yielded = Front(pulled))
        /\ ( /\ Len(pulled) >= 2
             /\ Written(pulled) < TargetSizeOf(pulled)
             /\ \/ IsOp(Last(pulled), SOURCECRC32)
                \/ IsOp(Last(pulled), TARGETCRC32) ) =>
               inner.pc = "corrupt"

C6_Witness ==
    /\ inner.pc = "corrupt"
    /\ Len(pulled) >= 3
    /\ IsOp(Last(pulled), TARGETREAD)
    /\ WellTyped(Last(pulled)) /\ Span(Last(pulled)) >= 1
    /\ Written(Front(pulled)) >= 1
    /\ Written(pulled) > TargetSizeOf(pulled)
    /\ PulledInLoop(pulled)

(***************************************************************************)
(* C7.  SourceRead bound: every SourceRead yielded has length n >= 1 and,  *)
(* at its write offset w, w + n <= sourceSize; a SourceRead pulled in the  *)
(* loop with w + n > sourceSize raises CorruptFile.                        *)
(***************************************************************************)
C7_SourceReadBound ==
    /\ \A i \in 2..Len(yielded) :
           IsOp(yielded[i], SOURCEREAD) =>
               /\ yielded[i].v1 >= 1
               /\ WrittenTo(yielded, i - 1) + yielded[i].v1
                      <= SourceSizeOf(yielded)
    /\ ( /\ Len(pulled) >= 2
         /\ IsOp(Last(pulled), SOURCEREAD) /\ WellTyped(Last(pulled))
         /\ Written(pulled) > SourceSizeOf(pulled)
         /\ PulledInLoop(pulled) ) => inner.pc = "corrupt"

C7_Witness ==
    /\ inner.pc = "corrupt"
    /\ Len(pulled) >= 3
    /\ IsOp(Last(pulled), SOURCEREAD) /\ WellTyped(Last(pulled))
    /\ Last(pulled).v1 >= 1
    /\ Written(Front(pulled)) >= 1
    /\ Written(pulled) > SourceSizeOf(pulled)
    /\ Written(pulled) <= TargetSizeOf(pulled)
    /\ PulledInLoop(pulled)

(***************************************************************************)
(* C8.  SourceCopy bound: every SourceCopy yielded has length n >= 1 and,  *)
(* with c the sum of offset + length over the SourceCopy operations before *)
(* it and d its offset, 0 <= c + d and c + d + n <= sourceSize; a          *)
(* SourceCopy pulled in the loop outside these bounds raises CorruptFile.  *)
(***************************************************************************)
SourceCopyInBounds(seq, i) ==
    LET c == CursorTo(seq, i - 1, SOURCECOPY) + seq[i].v2
    IN  0 <= c /\ c + seq[i].v1 <= SourceSizeOf(seq)

C8_SourceCopyBound ==
    /\ \A i \in 2..Len(yielded) :
           IsOp(yielded[i], SOURCECOPY) =>
               yielded[i].v1 >= 1 /\ SourceCopyInBounds(yielded, i)
    /\ ( /\ Len(pulled) >= 2
         /\ IsOp(Last(pulled), SOURCECOPY) /\ WellTyped(Last(pulled))
         /\ ~SourceCopyInBounds(pulled, Len(pulled))
         /\ PulledInLoop(pulled) ) => inner.pc = "corrupt"

C8_Witness ==
    /\ inner.pc = "middle"
    /\ Len(yielded) >= 3
    /\ IsOp(Last(yielded), SOURCECOPY)
    /\ Last(yielded).v2 < 0
    /\ CursorTo(yielded, Len(yielded) - 1, SOURCECOPY) > 0

(***************************************************************************)
(* C9.  TargetCopy bound: every TargetCopy yielded has length n >= 1 and,  *)
(* with c the sum of offset + length over the TargetCopy operations before *)
(* it, d its offset and w its write offset, 0 <= c + d < w; a TargetCopy   *)
(* pulled in the loop outside these bounds raises CorruptFile, so one at   *)
(* w = 0 always does; one inside them that does not write past targetSize  *)
(* is yielded even when c + d + n > w.                                     *)
(***************************************************************************)
TargetCopyInBounds(seq, i) ==
    LET c == CursorTo(seq, i - 1, TARGETCOPY) + seq[i].v2
    IN  0 <= c /\ c < WrittenTo(seq, i - 1)

C9_TargetCopyBound ==
    /\ \A i \in 2..Len(yielded) :
           IsOp(yielded[i], TARGETCOPY) =>
               yielded[i].v1 >= 1 /\ TargetCopyInBounds(yielded, i)
    /\ ( /\ Len(pulled) >= 2
         /\ IsOp(Last(pulled), TARGETCOPY) /\ WellTyped(Last(pulled))
         /\ PulledInLoop(pulled) ) =>
           /\ ~TargetCopyInBounds(pulled, Len(pulled)) => inner.pc = "corrupt"
           /\ Written(Front(pulled)) = 0 => inner.pc = "corrupt"
           /\ ( /\ ~exhausted
                /\ TargetCopyInBounds(pulled, Len(pulled))
                /\ Last(pulled).v1 >= 1
                /\ Written(pulled) <= TargetSizeOf(pulled) ) =>
                  (inner.pc # "corrupt" /\ yielded = pulled)

\* A TargetCopy that reads bytes it writes itself has been yielded.
C9_Witness ==
    /\ inner.pc # "corrupt"
    /\ Len(yielded) >= 3
    /\ IsOp(Last(yielded), TARGETCOPY)
    /\ CursorTo(yielded, Len(yielded), TARGETCOPY)
           > WrittenTo(yielded, Len(yielded) - 1)

(***************************************************************************)
(* C10.  Cursor bookkeeping: after the header all three cursors are 0; at  *)
(* every later point the source-copy cursor is the sum of offset + length  *)
(* over the SourceCopy operations yielded so far, the target-copy cursor   *)
(* the same sum over the TargetCopy operations, and the write offset the   *)
(* sum of the bytespans; so an operation of another kind leaves a copy     *)
(* cursor as it was.                                                       *)
(***************************************************************************)
C10_Cursors ==
    inner.pc \in {"middle", "targetcrc32", "trailing", "done"} =>
        /\ inner.sourceRelativeOffset = CursorTo(yielded, Len(yielded), SOURCECOPY)
        /\ inner.targetRelativeOffset = CursorTo(yielded, Len(yielded), TARGETCOPY)
        /\ inner.targetWriteOffset = Written(yielded)
        /\ Len(yielded) = 1 =>
               /\ inner.sourceRelativeOffset = 0
               /\ inner.targetRelativeOffset = 0
               /\ inner.targetWriteOffset = 0

\* Two TargetCopy operations and a SourceCopy have been yielded, the cursors
\* differ, and the second TargetCopy started from the first one's end.
C10_Witness ==
    /\ inner.pc \in {"middle", "targetcrc32"}
    /\ \E i, j \in 2..Len(yielded) :
           /\ i < j
           /\ IsOp(yielded[i], TARGETCOPY) /\ IsOp(yielded[j], TARGETCOPY)
           /\ CursorTo(yielded, i, TARGETCOPY) > 0
    /\ inner.targetRelativeOffset # inner.sourceRelativeOffset

(***************************************************************************)
(* C17.  First violation: check_stream has always yielded, unchanged, a    *)
(* prefix of what it has pulled, and has pulled at most one item more than *)
(* it has yielded.  When the item just pulled is the first to violate an   *)
(* invariant, the items before it have all been yielded, it is not         *)
(* yielded, CorruptFile is raised, and nothing is pulled after it.         *)
(***************************************************************************)
C17_FirstViolation ==
    /\ Len(yielded) <= Len(pulled)
    /\ Len(pulled) <= Len(yielded) + 1
    /\ yielded = SubSeq(pulled, 1, Len(yielded))
    /\ (pulled # <<>> /\ ~ItemOK(pulled, Len(pulled))) =>
           /\ inner.pc = "corrupt"
           /\ yielded = Front(pulled)
           /\ ValidPrefix(Front(pulled))
    /\ (inner.pc = "corrupt" /\ ~exhausted) =>
           /\ pulled # <<>>
           /\ ~ItemOK(pulled, Len(pulled))

\* A middle operation that breaks an invariant was pulled after the header
\* and at least one operation had been yielded.
C17_Witness ==
    /\ inner.pc = "corrupt" /\ ~exhausted
    /\ Len(pulled) >= 3
    /\ MiddleKind(Last(pulled))
    /\ ~ItemOK(pulled, Len(pulled))
    /\ yielded = Front(pulled)

(***************************************************************************)
(* C12.  VarInt round trip: for every n >= 0 reading what write_var_int(n) *)
(* wrote returns n and consumes exactly the bytes written, whatever        *)
(* follows them: the reader stops at the first byte with its high bit set, *)
(* which is the last byte written.  0, 1, 127, 128, 129, 255 and 256 are   *)
(* written as 80, 81, FF, 00 80, 01 80, 7F 80 and 00 81 (hex).             *)
(***************************************************************************)
EXAMPLE_VAR_INTS ==
    (0 :> <<128>>) @@ (1 :> <<129>>) @@ (127 :> <<255>>) @@ (128 :> <<0, 128>>)
    @@ (129 :> <<1, 128>>) @@ (255 :> <<127, 128>>) @@ (256 :> <<0, 129>>)

\* The number a byte string stands for: seven bits per byte, least
\* significant first, each byte after the first counting one more.
RECURSIVE VarIntValue(_)
VarIntValue(bytes) ==
    IF Len(bytes) = 1 THEN bytes[1] % 128
    ELSE (bytes[1] % 128) + 128 * (VarIntValue(Tail(bytes)) + 1)

C12_VarIntRoundTrip ==
    /\ varint.pc \in {"written", "read"} =>
          LET encoded == SubSeq(varint.buf, 1, varint.written)
          IN  /\ varint.written >= 1
              /\ varint.buf = encoded \o varint.trailing
              /\ encoded[Len(encoded)] >= 128
              /\ \A i \in 1..(Len(encoded) - 1) : encoded[i] < 128
              /\ VarIntValue(encoded) = varint.n
              /\ varint.n \in DOMAIN EXAMPLE_VAR_INTS =>
                     encoded = EXAMPLE_VAR_INTS[varint.n]
    /\ varint.pc = "read" =>
          /\ varint.ok
          /\ varint.value = varint.n
          /\ varint.pos = varint.written

\* 256 was written as 00 81 before the bytes 00 80 and read back.
C12_Witness ==
    /\ varint.pc = "read"
    /\ varint.n = 256
    /\ varint.buf = <<0, 129, 0, 128>>
    /\ varint.value = 256
    /\ varint.pos = 2

(***************************************************************************)
(* C16.  The CRC-tracking wrapper, after any reads and writes: every seek  *)
(* raises UnsupportedOperation; truncate() to the current position         *)
(* succeeds and leaves contents and CRC unchanged; truncate(0) succeeds,   *)
(* empties the stream and resets the CRC to 0; truncate to any other       *)
(* length raises UnsupportedOperation.                                     *)
(***************************************************************************)
\* The size the last truncate call asked for.
TruncateLength == IF wrapper.size = -1 THEN wrapper.old.pos ELSE wrapper.size

WrapperUnchanged ==
    /\ wrapper.data = wrapper.old.data
    /\ wrapper.pos = wrapper.old.pos
    /\ wrapper.crc32 = wrapper.old.crc32

SeekRefused == wrapper.op = "seek" => (wrapper.raised /\ WrapperUnchanged)

TruncateToZero ==
    (wrapper.op = "truncate" /\ TruncateLength = 0) =>
        /\ ~wrapper.raised
        /\ wrapper.data = <<>>
        /\ wrapper.crc32 = <<0, 0>>

TruncateElsewhere ==
    (wrapper.op = "truncate" /\ TruncateLength \notin {0, wrapper.old.pos}) =>
        (wrapper.raised /\ WrapperUnchanged)

CopyLabels == {SOURCECOPY, TARGETCOPY}

C18_OffsetCodec ==
    /\ \A i \in 1..Len(codec.stream) :
          codec.stream[i].i0 \in CopyLabels =>
              SignedOffset(RawOffset(codec.stream[i].v2)) = codec.stream[i].v2
    /\ codec.pc = "accepted" =>
          \A k \in 1..Len(codec.raws) :
              /\ codec.raws[k] # 1
              /\ RawOffset(SignedOffset(codec.raws[k])) = codec.raws[k]

(***************************************************************************)
(* C14.  Patch checksum: when the file is structurally a patch (read_blip  *)
(* reads it to its last byte), read_blip raises the checksum error if and  *)
(* only if the last 32-bit field differs from the CRC32 of all the bytes   *)
(* before it; the comparison is made only after the header, every          *)
(* operation and both CRC32 items were yielded; and a patch written by     *)
(* write_blip never fails the comparison.                                  *)
(***************************************************************************)
\* read_blip has compared the patch CRC32.
Compared == codec.rd.pc = "done" \/ codec.rd.error = "checksum"

RECURSIVE OperationLengths(_, _)
OperationLengths(items, i) ==
    IF i > Len(items) THEN 0
    ELSE (IF items[i].i0 = TARGETREAD THEN Len(items[i].d1)
          ELSE IF items[i].i0 \in {SOURCEREAD, SOURCECOPY, TARGETCOPY}
          THEN items[i].v1 ELSE 0)
         + OperationLengths(items, i + 1)

AllYielded ==
    /\ Len(pulled) >= 3
    /\ pulled[1].i0 = BLIP_MAGIC
    /\ \A i \in 2..(Len(pulled) - 2) :
          pulled[i].i0 \in {SOURCEREAD, TARGETREAD, SOURCECOPY, TARGETCOPY}
    /\ OperationLengths(pulled, 2) >= pulled[1].v2
    /\ pulled[Len(pulled) - 1].i0 = SOURCECRC32
    /\ pulled[Len(pulled)].i0 = TARGETCRC32

C14_PatchChecksum ==
    LET n == Len(codec.file)
    IN  /\ (Compared /\ codec.rd.pos = n) =>
              (codec.rd.error = "checksum"
                 <=> unpack(SubSeq(codec.file, n - 3, n))
                       # crc32(SubSeq(codec.file, 1, n - 4)))
        /\ Compared => AllYielded
        /\ (codec.at = 0 /\ codec.pc \in {"reading", "accepted", "rejected"}) =>
              /\ codec.rd.error # "checksum"
              /\ codec.pc = "accepted" => codec.rd.pc = "done"
              /\ codec.pc # "rejected"

\* A patch whose replaced byte left its structure alone was read to its
\* end and failed the comparison.
C14_Witness ==
    /\ codec.at > 0 /\ ~codec.sealed
    /\ codec.rd.error = "checksum"
    /\ codec.rd.pos = Len(codec.file)
    /\ AllYielded
    /\ codec.pc = "rejected"

(***************************************************************************)
(* C13.  Single-byte mutation detection: for every valid binary patch,     *)
(* every position in it and every other byte value, decoding the patch     *)
(* with that byte replaced through read_blip and check_stream ends in an   *)
(* error: no such patch is accepted.                                       *)
(***************************************************************************)
Mutated == codec.at > 0 /\ ~codec.sealed

C11_TextRoundTrip ==
    /\ codec.pc # "unconverted"
    /\ codec.pc = "converted" => codec.back = codec.file

(***************************************************************************)
(* C21.  measure_op's forward extension: the length of the copy operation  *)
(* returned equals the length of the longest common prefix of ref[refOff:] *)
(* and target[targetOff:], the offsets taken after the backward reduction, *)
(* also when the match runs to the end of a buffer and when one of the two *)
(* remaining spans is zero.                                                *)
(***************************************************************************)
\* The length of the longest common prefix of a[i:] and b[j:].
CommonPrefix(a, i, b, j) ==
    LET agree == {k \in 0..Min(Len(a) - i, Len(b) - j) :
                     \A h \in 1..k : a[i + h] = b[j + h]}
    IN  CHOOSE k \in agree : \A other \in agree : other <= k

\* The copy operation of a measure_op result: its last operation.
CopyOf(result) == result[Len(result)]

C21_ForwardSpan ==
    measure.pc = "returned" =>
        /\ measure.result # <<>>
        /\ CopyOf(measure.result).bytespan
              = CommonPrefix(measure.blocksrc,
                             measure.sourceoffset - measure.backspan,
                             measure.target,
                             measure.targetoffset - measure.backspan)

(***************************************************************************)
(* C22.  measure_op's result shape: a non-empty result is an optional      *)
(* TargetRead holding exactly the p pending bytes                          *)
(* target[targetOff-p : targetOff] (present iff p > 0 after the backward   *)
(* reduction) followed by exactly one copy operation, which is            *)
(* SourceRead(span) when the variant is SourceCopy and refOff = targetOff  *)
(* and variant(span, refOff) otherwise; the operations cover the target    *)
(* contiguously from the original targetOff minus the original pending     *)
(* size.                                                                   *)
(***************************************************************************)
\* The copy operation the claim names for the reduced offsets.
CopyNamed(op, span, refOff, targetOff) ==
    IF op = "SourceCopy" /\ refOff = targetOff THEN SourceRead(span)
    ELSE IF op = "SourceCopy" THEN SourceCopy(span, refOff)
    ELSE TargetCopy(span, refOff)

\* The result the claim describes, for reduced offsets and pending size p.
ShapeNamed(op, span, refOff, tgt, targetOff, p) ==
    (IF p > 0 THEN <<TargetRead(SubSeq(tgt, targetOff - p + 1, targetOff))>>
     ELSE <<>>)
    \o <<CopyNamed(op, span, refOff, targetOff)>>

AtLoopTest == diff.pc = "search"

C23_TargetMap ==
    /\ diff.pc # "crashed"
    /\ diff.nextTargetBlockOffset <= diff.targetWriteOffset
    /\ \A i \in 1..Len(diff.targetmap) :
          LET block == diff.targetmap[i][1]
              o == diff.targetmap[i][2]
          IN  /\ Len(block) = blocksize
              /\ o + blocksize <= diff.targetWriteOffset
              /\ block = SubSeq(target, o + 1, o + blocksize)
    /\ diff.nextTargetBlockOffset = Len(diff.targetmap) * blocksize
    /\ AtLoopTest =>
          diff.targetWriteOffset - diff.nextTargetBlockOffset < blocksize

\* The loop goes round again with blocks in the target map.
C23_Witness ==
    /\ AtLoopTest /\ LoopTest(diff)
    /\ Len(diff.targetmap) >= 1
    /\ diff.targetWriteOffset >= blocksize

(***************************************************************************)
(* C24.  Diff cursor tracking matches the decoder: with the diff loop and  *)
(* the validator run side by side on the emitted stream, after every       *)
(* operation the loop has emitted lastSourceCopyOffset equals the          *)
(* decoder's source-copy cursor and lastTargetCopyOffset its target-copy   *)
(* cursor (each the absolute end offset of the most recent copy of that    *)
(* kind, 0 if none), and targetWriteOffset equals the decoder's write      *)
(* offset.                                                                 *)
(***************************************************************************)
\* The absolute end offset of the most recent copy of a kind among the
\* first n operations yielded, 0 if there is none.
RECURSIVE LastCopyEnd(_, _, _)
LastCopyEnd(oplist, n, kind) ==
    IF n = 0 THEN 0
    ELSE IF oplist[n].kind = kind THEN oplist[n].offset + oplist[n].bytespan
    ELSE LastCopyEnd(oplist, n - 1, kind)

\* The generator is inside the while loop and has done the bookkeeping of
\* lines 199-204 for everything it has yielded.
Accounted == diff.pc \in {"search", "emit"}

C24_CursorTracking ==
    Accounted =>
        /\ inner.pc # "corrupt"
        /\ diff.lastSourceCopyOffset = inner.sourceRelativeOffset
        /\ diff.lastTargetCopyOffset = inner.targetRelativeOffset
        /\ diff.targetWriteOffset = inner.targetWriteOffset
        /\ diff.lastSourceCopyOffset = LastCopyEnd(ops, Len(ops), "SourceCopy")
        /\ diff.lastTargetCopyOffset = LastCopyEnd(ops, Len(ops), "TargetCopy")

\* Both cursors have moved.
C24_Witness ==
    /\ Accounted
    /\ \E i \in 1..Len(ops) : ops[i].kind = "SourceCopy"
    /\ \E i \in 1..Len(ops) : ops[i].kind = "TargetCopy"
    /\ inner.sourceRelativeOffset > 0
    /\ inner.targetRelativeOffset > 0

(***************************************************************************)
(* C25.  Metadata escaping in blip-asm: for every metadata string made of  *)
(* newline-terminated lines, including lines that begin with '.' and a     *)
(* line that is exactly '.', writing a stream with write_blip_asm and      *)
(* reading it back with read_blip_asm returns a header whose metadata      *)
(* equals the original, and no metadata line is mistaken for the '.'       *)
(* terminator of the block.                                                *)
(***************************************************************************)
NewlineTerminated(text) == text = <<>> \/ Last(text) = 10

\* The text is read as it was written, for a stream whose metadata is made
\* of newline-terminated lines.
WholeText == ~codec.cut /\ NewlineTerminated(codec.stream[1].v3)

C25_MetadataEscaping ==
    WholeText =>
        /\ codec.pc \notin {"unconverted", "looping"}
        /\ Len(codec.parsed) >= 1 =>
              /\ codec.parsed[1].v3 = codec.stream[1].v3
              /\ codec.parsed[1] = codec.stream[1]
        /\ Len(codec.parsed) <= Len(codec.stream)
        /\ \A i \in 1..Len(codec.parsed) : codec.parsed[i] = codec.stream[i]
        /\ codec.pc = "parsed" => codec.parsed = codec.stream

\* A metadata of two lines, the first exactly '.', the second beginning
\* with '.', has come back with the operations after it.
C25_Witness ==
    /\ WholeText
    /\ codec.pc = "parsed"
    /\ codec.stream[1].v3 = <<46, 10, 46, 109, 10>>
    /\ codec.parsed[1].v3 = <<46, 10, 46, 109, 10>>
    /\ Len(codec.parsed) = 4

(***************************************************************************)
(* C29.  Textual reader termination: read_blip_asm terminates on every     *)
(* finite input; when the input ends before the '.' line that closes a     *)
(* metadata block or a target-read block, reading stops with an error      *)
(* instead of continuing to read at end of file.                           *)
(***************************************************************************)
C29_ReaderTerminates ==
    /\ codec.pc # "looping"
    /\ codec.asm.pc # "looping"

(***************************************************************************)
(* C26.  Diff termination and progress: for every finite source and target *)
(* diff_bytearrays terminates; every iteration of its main loop strictly   *)
(* increases targetWriteOffset + pendingTargetReadSize (an emitted         *)
(* candidate list always ends beyond the probed block start),              *)
(* pendingTargetReadSize never becomes negative, and targetWriteOffset     *)
(* never exceeds len(target).                                              *)
(***************************************************************************)
RECURSIVE TotalSpan(_)
TotalSpan(oplist) ==
    IF oplist = <<>> THEN 0 ELSE Head(oplist).bytespan + TotalSpan(Tail(oplist))

\* What the loop test of line 148 compares with len(target).
Reached(f) == f.targetWriteOffset + f.pendingTargetReadSize

\* One step of a pass of the while loop: a pass without a candidate moves
\* Reached on; a pass with one picks a list that ends beyond Reached, every
\* operation of it moves targetWriteOffset by its span, and the pass ends
\* with nothing pending, so Reached is then where the list ended.
LoopProgress ==
    /\ (diff.pc = "search" /\ diff'.pc = "search") => Reached(diff') > Reached(diff)
    /\ (diff.pc = "search" /\ diff'.pc = "emit") =>
          /\ diff'.targetWriteOffset = diff.targetWriteOffset
          /\ diff'.pendingTargetReadSize = diff.pendingTargetReadSize
          /\ diff.targetWriteOffset + TotalSpan(diff'.bestOpList) > Reached(diff)
    /\ (diff.pc = "emit" /\ diff'.pc = "yielded") =>
          /\ diff'.targetWriteOffset = diff.targetWriteOffset
          /\ diff'.op.bytespan + TotalSpan(diff'.bestOpList)
                = TotalSpan(diff.bestOpList)
    /\ diff.pc = "yielded" =>
          /\ diff'.targetWriteOffset = diff.targetWriteOffset + diff.op.bytespan
          /\ diff'.bestOpList = diff.bestOpList
          /\ diff'.pc = "search" =>
                diff.bestOpList = <<>> /\ diff'.pendingTargetReadSize = 0

C26_Termination ==
    /\ [](/\ diff.pendingTargetReadSize >= 0
          /\ diff.targetWriteOffset <= Len(target)
          /\ diff.pc # "crashed")
    /\ [][LoopProgress]_vars
    /\ <>(diff.pc = "returned")

\* A pass without a candidate was followed by a pass that emitted a list,
\* and the generator has returned.
C26_Witness ==
    /\ diff.pc = "returned"
    /\ Len(ops) >= 5
    /\ ops[2].kind = "TargetRead"
    /\ \E i \in 3..Len(ops) : ops[i].kind \in {"SourceCopy", "TargetCopy"}

(***************************************************************************)
(* C27.  No source match means one literal: if no probed block of the      *)
(* target is found in the source map (in particular when source is empty), *)
(* diff_bytearrays yields exactly the header, one TargetRead holding the   *)
(* whole target (none when target is empty) and the two CRC markers; it    *)
(* never emits a TargetCopy, because the target map receives blocks only   *)
(* after some operation has been emitted, even when the target consists of *)
(* repeated blocks.                                                        *)
(***************************************************************************)
\* No block of the target, at any offset, is a block of the source.
NoSourceMatch ==
    \A o \in 0..(Len(target) - 1) :
       \A i \in 0..(Len(source) - 1) :
          i % blocksize = 0 =>
             SubSeq(target, o + 1, Min(o + blocksize, Len(target)))
                # SubSeq(source, i + 1, Min(i + blocksize, Len(source)))

OneLiteral ==
    <<Header(Len(source), Len(target), metadata)>>
    \o (IF target = <<>> THEN <<>> ELSE <<TargetRead(target)>>)
    \o <<SourceCRC32(crc32(source)), TargetCRC32(crc32(target))>>

C27_OneLiteral ==
    NoSourceMatch =>
        /\ Len(ops) <= Len(OneLiteral)
        /\ \A i \in 1..Len(ops) : ops[i] = OneLiteral[i]
        /\ diff.targetmap = <<>>
        /\ diff.pc = "returned" => ops = OneLiteral

\* A target of one repeated block, and a source that is not empty.
C27_Witness ==
    /\ NoSourceMatch
    /\ diff.pc = "returned"
    /\ source # <<>>
    /\ Len(target) >= 3
    /\ \A i \in 1..Len(target) : target[i] = target[1]
    /\ blocksize = 1
    /\ ops = OneLiteral

(***************************************************************************)
(* C28.  Identical inputs: for every non-empty byte string s,              *)
(* diff_bytearrays(s, s) yields exactly Header(len(s), len(s), metadata),  *)
(* SourceRead(len(s)), SourceCRC32, TargetCRC32: the aligned candidate at  *)
(* source offset 0 has strictly higher efficiency than every other         *)
(* candidate, whatever the order of offsets in the block map.              *)
(***************************************************************************)
Identical == source = target /\ source # <<>>

WholeSourceRead ==
    <<Header(Len(source), Len(source), metadata), SourceRead(Len(source)),
      SourceCRC32(crc32(source)), TargetCRC32(crc32(source))>>

\* The first pass of the while loop is about to search.
FirstPass ==
    /\ diff.pc = "search"
    /\ Len(ops) = 1
    /\ diff.pendingTargetReadSize = 0

\* Among the candidates of the pass the aligned one is there and beats every
\* other one, so that it is picked in whatever order they are measured.
AlignedWins ==
    LET candidates == Candidates(diff, blocksize)
        aligned == <<SourceRead(Len(source))>>
    IN  /\ \E i \in 1..Len(candidates) : candidates[i] = aligned
        /\ \A i \in 1..Len(candidates) :
              \/ candidates[i] = aligned
              \/ Greater(op_efficiency(aligned, 0, 0),
                         op_efficiency(candidates[i], 0, 0))

C28_Identical ==
    Identical =>
        /\ Len(ops) <= 4
        /\ \A i \in 1..Len(ops) : ops[i] = WholeSourceRead[i]
        /\ FirstPass => AlignedWins
        /\ diff.pc = "returned" => ops = WholeSourceRead

\* A string with the same block at several offsets, so that several
\* candidates are measured.
C28_Witness ==
    /\ Identical
    /\ diff.pc = "returned"
    /\ ops = WholeSourceRead
    /\ Len(source) >= 3
    /\ source[1] = source[2] /\ source[2] = source[3]
    /\ blocksize <= 2

====
